---- MODULE Spec2Model ----
(***************************************************************************)
(* just-mcp: the recipe execution engine (just-mcp-lib/src/executor.rs)    *)
(* over the Justfile model (just-mcp-lib/src/lib.rs), the parser           *)
(* (parser.rs), the run_recipe tool (mcp_server.rs), the argument          *)
(* validator and the run subcommand (validator.rs, src/main.rs) and the    *)
(* McpEnvironment (environment.rs).                                        *)
(*                                                                         *)
(* Text (String / &str) is a sequence of one-character strings, so that    *)
(* str::replace, str::contains, str::lines, str::trim and strip_prefix are *)
(* computed on characters as the code computes them.  Recipe names are     *)
(* only ever compared for equality and stay atomic strings.                *)
(* ExecutionResult.duration_ms is wall-clock time and is not modelled.     *)
(***************************************************************************)
EXTENDS Integers, Sequences, FiniteSets, TLC

VARIABLES
    justfile,     \* the parsed Justfile handed to execute_recipe (read-only)
    stack,        \* activations of execute_recipe, innermost last
    result,       \* what the top-level execute_recipe call returned, if it has
    dispatched,   \* history: every `sh -c` command dispatched by the call
    runLog,       \* history: every value execute_commands returned, in order
    raised,       \* history: where the error now propagating was first raised
    activations,  \* history: how many activations of execute_recipe began
    parsing,      \* the locals of parse_justfile_str, and what it returned
    server,       \* the run_recipe tool call of JustMcpServer, and its reply
    cli,          \* the recipe run of main: the validation, and how it ended
    environment   \* the McpEnvironment, and what its last method returned

vars ==
    <<justfile, stack, result, dispatched, runLog, raised, activations,
      parsing, server, cli, environment>>

(***************************************************************************)
(* Bounds of the model.                                                    *)
(***************************************************************************)
MaxDepth == 4     \* activations of execute_recipe alive at once
MaxEdges == 2     \* dependency names in a Justfile of the graph pool
MaxParams == 2    \* parameters of a recipe of the argument pool
MaxLines == 2     \* body lines of a recipe of the body pool
MaxContent == 3   \* physical lines of a parsed Justfile text
MaxSources == 3   \* entries of the sources of an McpEnvironment

(***************************************************************************)
(* Option<T>: None is the empty sequence, Some(v) the one-element one.     *)
(***************************************************************************)
None == <<>>
Some(v) == <<v>>

(***************************************************************************)
(* Text helpers.                                                           *)
(***************************************************************************)
NL == "\n"
TAB == "\t"
SP == " "

\* char::is_whitespace over the model's alphabet
IsWhitespace(c) == c \in {SP, TAB, NL}

\* str::starts_with
StartsWith(s, p) ==
    /\ Len(p) <= Len(s)
    /\ SubSeq(s, 1, Len(p)) = p

\* str::contains
Contains(s, p) ==
    \E i \in 1..(Len(s) - Len(p) + 1) : SubSeq(s, i, i + Len(p) - 1) = p

\* str::strip_prefix: Some(rest) or None
strip_prefix(s, p) ==
    IF StartsWith(s, p) THEN Some(SubSeq(s, Len(p) + 1, Len(s))) ELSE None

RECURSIVE trim_start(_)
trim_start(s) ==
    IF s # <<>> /\ IsWhitespace(Head(s)) THEN trim_start(Tail(s)) ELSE s

RECURSIVE trim_end(_)
trim_end(s) ==
    IF s # <<>> /\ IsWhitespace(s[Len(s)])
    THEN trim_end(SubSeq(s, 1, Len(s) - 1))
    ELSE s

\* str::trim
trim(s) == trim_end(trim_start(s))

\* str::replace: every non-overlapping match of pat, left to right
RECURSIVE replace(_, _, _)
replace(s, pat, to) ==
    IF Len(s) < Len(pat) \/ pat = <<>> THEN s
    ELSE IF StartsWith(s, pat)
         THEN to \o replace(SubSeq(s, Len(pat) + 1, Len(s)), pat, to)
         ELSE <<Head(s)>> \o replace(Tail(s), pat, to)

\* str::lines: split at "\n"; a final "\n" ends the last line and starts no
\* empty one
RECURSIVE lines(_)
lines(s) ==
    IF s = <<>> THEN <<>>
    ELSE IF \E i \in 1..Len(s) : s[i] = NL
         THEN LET i == CHOOSE j \in 1..Len(s) :
                           s[j] = NL /\ \A k \in 1..(j - 1) : s[k] # NL
              IN <<SubSeq(s, 1, i - 1)>> \o lines(SubSeq(s, i + 1, Len(s)))
         ELSE <<s>>

(***************************************************************************)
(* lib.rs: Justfile, Recipe, Parameter.                                    *)
(***************************************************************************)
Parameter(name, default_value) ==
    [name |-> name, default_value |-> default_value]

Recipe(name, parameters, body, dependencies) ==
    [name |-> name, parameters |-> parameters, body |-> body,
     dependencies |-> dependencies]

Justfile(recipes, variables) == [recipes |-> recipes, variables |-> variables]

\* HashMap::insert
insert(map, k, v) ==
    [x \in DOMAIN map \cup {k} |-> IF x = k THEN v ELSE map[x]]

EmptyMap == [x \in {} |-> <<>>]

(***************************************************************************)
(* executor.rs: ExecutionResult, ExecutionError, Result.                   *)
(***************************************************************************)
ExecutionResult(stdout, stderr, exit_code) ==
    [stdout |-> stdout, stderr |-> stderr, exit_code |-> exit_code]

EmptyResult == ExecutionResult(<<>>, <<>>, 0)

NoMessage == [text |-> "", expected |-> 0, got |-> 0, param |-> <<>>]

ExecutionError(kind, recipe_name, dependency, message, source) ==
    [kind |-> kind, recipe_name |-> recipe_name, dependency |-> dependency,
     message |-> message, source |-> source]

RecipeNotFound(recipe_name) ==
    ExecutionError("RecipeNotFound", recipe_name, "", NoMessage, None)

InvalidArguments(recipe_name, message) ==
    ExecutionError("InvalidArguments", recipe_name, "", message, None)

\* a slip: the two names change places
DependencyFailedSwapped(recipe_name, dependency, source) ==
    ExecutionError("DependencyFailed", dependency, recipe_name, NoMessage,
                   Some(source))

DependencyFailed(recipe_name, dependency, source) ==
    ExecutionError("DependencyFailed", recipe_name, dependency, NoMessage,
                   Some(source))

ExecutionFailed(recipe_name) ==
    ExecutionError("ExecutionFailed", recipe_name, "", NoMessage, None)

SubstitutionFailed ==
    ExecutionError("SubstitutionFailed", "", "",
                   [text |-> "Unresolved parameter or variable references found",
                    expected |-> 0, got |-> 0, param |-> <<>>],
                   None)

NoError == ExecutionError("", "", "", NoMessage, None)

Ok(v) == [ok |-> TRUE, value |-> v, error |-> NoError]
Err(e) == [ok |-> FALSE, value |-> <<>>, error |-> e]

(***************************************************************************)
(* executor.rs: find_recipe.                                               *)
(***************************************************************************)
\* a slip: the last recipe that bears the name is taken
find_recipe_last(jf, recipe_name) ==
    IF \E i \in 1..Len(jf.recipes) : jf.recipes[i].name = recipe_name
    THEN LET i == CHOOSE j \in 1..Len(jf.recipes) :
                      /\ jf.recipes[j].name = recipe_name
                      /\ \A k \in (j + 1)..Len(jf.recipes) :
                            jf.recipes[k].name # recipe_name
         IN Ok(jf.recipes[i])
    ELSE Err(RecipeNotFound(recipe_name))

\* a slip: a name borne by several recipes is taken for none
find_recipe_unique(jf, recipe_name) ==
    IF \E i \in 1..Len(jf.recipes) :
          /\ jf.recipes[i].name = recipe_name
          /\ \A k \in 1..Len(jf.recipes) :
                jf.recipes[k].name = recipe_name => k = i
    THEN LET i == CHOOSE j \in 1..Len(jf.recipes) :
                      jf.recipes[j].name = recipe_name
         IN Ok(jf.recipes[i])
    ELSE Err(RecipeNotFound(recipe_name))

find_recipe(jf, recipe_name) ==
    IF \E i \in 1..Len(jf.recipes) : jf.recipes[i].name = recipe_name
    THEN LET i == CHOOSE j \in 1..Len(jf.recipes) :
                      /\ jf.recipes[j].name = recipe_name
                      /\ \A k \in 1..(j - 1) : jf.recipes[k].name # recipe_name
         IN Ok(jf.recipes[i])
    ELSE Err(RecipeNotFound(recipe_name))

(***************************************************************************)
(* executor.rs: validate_arguments.                                        *)
(***************************************************************************)
\* "Process provided arguments": args[1..n] inserted under the names of the
\* parameters at the same indexes, in index order
RECURSIVE BindArgs(_, _, _)
BindArgs(params, args, n) ==
    IF n = 0 THEN EmptyMap
    ELSE LET before == BindArgs(params, args, n - 1)
         IN IF n <= Len(params)
            THEN insert(before, params[n].name, args[n])
            ELSE before

\* "Fill in defaults for remaining parameters": parameters i..Len(params), in
\* index order, returning at the first one without a default
RECURSIVE FillDefaults(_, _, _, _)
FillDefaults(recipe, params, i, param_values) ==
    IF i > Len(params) THEN Ok(param_values)
    ELSE IF params[i].default_value # None
         THEN FillDefaults(recipe, params, i + 1,
                  insert(param_values, params[i].name,
                         params[i].default_value[1]))
         ELSE Err(InvalidArguments(recipe.name,
                  [text |-> "Missing required parameter: {}",
                   expected |-> 0, got |-> 0, param |-> params[i].name]))

\* a slip: the count of the arguments is not checked
validate_arguments_unlimited(recipe, args) ==
    FillDefaults(recipe, recipe.parameters, Len(args) + 1,
                 BindArgs(recipe.parameters, args, Len(args)))

\* a slip: the defaults loop does not skip the parameters that got arguments
validate_arguments_unskipped(recipe, args) ==
    LET params == recipe.parameters
    IN IF Len(args) > Len(params)
       THEN Err(InvalidArguments(recipe.name,
                [text |-> "Expected at most {} arguments, got {}",
                 expected |-> Len(params), got |-> Len(args),
                 param |-> <<>>]))
       ELSE FillDefaults(recipe, params, 1, BindArgs(params, args, Len(args)))

validate_arguments(recipe, args) ==
    LET params == recipe.parameters
    IN IF Len(args) > Len(params)
       THEN Err(InvalidArguments(recipe.name,
                [text |-> "Expected at most {} arguments, got {}",
                 expected |-> Len(params), got |-> Len(args),
                 param |-> <<>>]))
       ELSE FillDefaults(recipe, params, Len(args) + 1,
                         BindArgs(params, args, Len(args)))

(***************************************************************************)
(* executor.rs: substitute_parameters.                                     *)
(***************************************************************************)
\* format!("{{{{ {name} }}}}")
Pattern(name) == <<"{", "{", SP>> \o name \o <<SP, "}", "}">>

\* str::trim_matches(c): every leading and every trailing c removed
RECURSIVE trim_matches(_, _)
trim_matches(s, c) ==
    IF s # <<>> /\ Head(s) = c THEN trim_matches(Tail(s), c)
    ELSE IF s # <<>> /\ s[Len(s)] = c
         THEN trim_matches(SubSeq(s, 1, Len(s) - 1), c)
         ELSE s

\* the first loop: the bound parameters, in the order `order` the HashMap
\* yields them
RECURSIVE SubstituteParams(_, _, _)
SubstituteParams(text, param_values, order) ==
    IF order = <<>> THEN text
    ELSE SubstituteParams(
             replace(text, Pattern(Head(order)), param_values[Head(order)]),
             param_values, Tail(order))

\* the second loop: the Justfile variables, quotes trimmed, in HashMap order
RECURSIVE SubstituteVariables(_, _, _)
SubstituteVariables(text, variables, order) ==
    IF order = <<>> THEN text
    ELSE LET clean_value ==
                 trim_matches(trim_matches(variables[Head(order)], "\""), "'")
         IN SubstituteVariables(
                replace(text, Pattern(Head(order)), clean_value),
                variables, Tail(order))

\* a slip: only an opening marker with a closing one after it counts
UnresolvedPaired(text) ==
    \E i, j \in 1..Len(text) :
        /\ i + 1 < j /\ j < Len(text)
        /\ SubSeq(text, i, i + 1) = <<"{", "{">>
        /\ SubSeq(text, j, j + 1) = <<"}", "}">>

\* "Check for any remaining unsubstituted variables"
Unresolved(text) ==
    Contains(text, <<"{", "{">>) /\ Contains(text, <<"}", "}">>)

\* the orders in which a HashMap may yield its keys
Orders(map) ==
    {o \in [1..Cardinality(DOMAIN map) -> DOMAIN map] :
        \A i, j \in DOMAIN o : i # j => o[i] # o[j]}

\* `result` after the two loops
Substituted(body, param_values, variables, porder, vorder) ==
    SubstituteVariables(SubstituteParams(body, param_values, porder),
                        variables, vorder)

substitute_parameters(body, param_values, variables, porder, vorder) ==
    LET text == Substituted(body, param_values, variables, porder, vorder)
    IN IF Unresolved(text) THEN Err(SubstitutionFailed) ELSE Ok(text)

(***************************************************************************)
(* executor.rs: execute_commands, one iteration of `for line in            *)
(* body.lines()`.  The shell is outside the program: what `sh -c` does     *)
(* with a command is an outcome drawn from a set.                          *)
(***************************************************************************)
\* exit status: 0, a non-zero code, or none (killed by a signal), which
\* `output.status.code().unwrap_or(-1)` turns into -1
ExitStatuses == {Some(0), Some(1), None}

unwrap_or(opt, default) == IF opt = None THEN default ELSE opt[1]

\* what the spawned shell printed: nothing, or a text that tells the
\* commands apart (the command itself, as `echo` would)
Printed(command_line) == {<<>>, command_line}

\* Command::output(): the process could not be spawned, or it ran
Output(spawned, stdout, stderr, status) ==
    [spawned |-> spawned, stdout |-> stdout, stderr |-> stderr,
     status |-> status]

NotSpawned == Output(FALSE, <<>>, <<>>, None)

ShellOutcomes(command_line) ==
    {NotSpawned}
    \cup {Output(TRUE, out, err, status) :
             out \in Printed(command_line), err \in Printed(command_line),
             status \in ExitStatuses}

\* the outcomes the graph pool's shell is restricted to: each way of
\* printing and each exit status occurs, not each combination of them
TypicalOutcomes(command_line) ==
    {NotSpawned,
     Output(TRUE, command_line, <<>>, Some(0)),
     Output(TRUE, <<>>, <<>>, Some(0)),
     Output(TRUE, <<>>, command_line, Some(1)),
     Output(TRUE, command_line, command_line, None)}

\* the shell a specification runs the commands in
Outcomes(shell, command_line) ==
    IF shell = "typical" THEN TypicalOutcomes(command_line)
    ELSE ShellOutcomes(command_line)

\* lines 214-217: the line is skipped
\* a slip: only blank lines are passed over
SkippedBlank(line) == trim(line) = <<>>

Skipped(line) ==
    LET trimmed == trim(line)
    IN trimmed = <<>> \/ StartsWith(trimmed, <<"#">>)

\* lines 219-226: "Remove leading tabs/spaces from command"
Unindent(line) ==
    IF strip_prefix(line, <<TAB>>) # None THEN strip_prefix(line, <<TAB>>)[1]
    ELSE IF strip_prefix(line, <<SP, SP, SP, SP>>) # None
         THEN strip_prefix(line, <<SP, SP, SP, SP>>)[1]
         ELSE line

\* lines 228-233: "Handle special prefixes"
Quiet(line) == strip_prefix(Unindent(line), <<"@">>) # None

CommandLine(line) ==
    IF Quiet(line) THEN strip_prefix(Unindent(line), <<"@">>)[1]
    ELSE Unindent(line)

\* a slip: the quiet mark is ignored
CollectStdoutLoud(combined_stdout, stdout, quiet) ==
    IF stdout # <<>>
    THEN (IF combined_stdout # <<>> THEN combined_stdout \o <<NL>>
          ELSE combined_stdout) \o stdout
    ELSE combined_stdout

\* lines 251-256
CollectStdout(combined_stdout, stdout, quiet) ==
    IF stdout # <<>> /\ ~quiet
    THEN (IF combined_stdout # <<>> THEN combined_stdout \o <<NL>>
          ELSE combined_stdout) \o stdout
    ELSE combined_stdout

\* lines 258-263
CollectStderr(combined_stderr, stderr) ==
    IF stderr # <<>>
    THEN (IF combined_stderr # <<>> THEN combined_stderr \o <<NL>>
          ELSE combined_stderr) \o stderr
    ELSE combined_stderr

\* a slip: the loop goes on after a failing command
BreaksNever(exit_code) == FALSE

\* lines 265-271: the loop breaks after this command
Breaks(exit_code) == exit_code # 0

(***************************************************************************)
(* executor.rs: execute_recipe, the accumulation of a dependency's result  *)
(* (lines 80-94) and the final merge (lines 103-123).                      *)
(***************************************************************************)
\* a slip: the exit code of every dependency is recorded, zero or not
AccumulateDependencyLatest(dependency_output, dep_result) ==
    ExecutionResult(
        (IF dependency_output.stdout # <<>> /\ dep_result.stdout # <<>>
         THEN dependency_output.stdout \o <<NL>>
         ELSE dependency_output.stdout) \o dep_result.stdout,
        (IF dependency_output.stderr # <<>> /\ dep_result.stderr # <<>>
         THEN dependency_output.stderr \o <<NL>>
         ELSE dependency_output.stderr) \o dep_result.stderr,
        dep_result.exit_code)

AccumulateDependency(dependency_output, dep_result) ==
    ExecutionResult(
        (IF dependency_output.stdout # <<>> /\ dep_result.stdout # <<>>
         THEN dependency_output.stdout \o <<NL>>
         ELSE dependency_output.stdout) \o dep_result.stdout,
        (IF dependency_output.stderr # <<>> /\ dep_result.stderr # <<>>
         THEN dependency_output.stderr \o <<NL>>
         ELSE dependency_output.stderr) \o dep_result.stderr,
        IF dep_result.exit_code # 0 THEN dep_result.exit_code
        ELSE dependency_output.exit_code)

\* a slip: the separator is pushed whether or not the recipe printed
CombineStdoutAlwaysSeparated(dependency_output, recipe_result) ==
    IF dependency_output.stdout # <<>>
    THEN dependency_output.stdout \o <<NL>> \o recipe_result.stdout
    ELSE recipe_result.stdout

CombineStdout(dependency_output, recipe_result) ==
    IF dependency_output.stdout # <<>>
    THEN (IF recipe_result.stdout # <<>>
          THEN dependency_output.stdout \o <<NL>>
          ELSE dependency_output.stdout) \o recipe_result.stdout
    ELSE recipe_result.stdout

CombineStderr(dependency_output, recipe_result) ==
    IF dependency_output.stderr # <<>>
    THEN (IF recipe_result.stderr # <<>>
          THEN dependency_output.stderr \o <<NL>>
          ELSE dependency_output.stderr) \o recipe_result.stderr
    ELSE recipe_result.stderr

\* a slip: the recipe's own code wins over the dependencies'
CombineExitCodeOwnFirst(dependency_output, recipe_result) ==
    IF recipe_result.exit_code # 0 THEN recipe_result.exit_code
    ELSE dependency_output.exit_code

CombineExitCode(dependency_output, recipe_result) ==
    IF dependency_output.exit_code # 0 THEN dependency_output.exit_code
    ELSE recipe_result.exit_code

Combine(dependency_output, recipe_result) ==
    ExecutionResult(CombineStdout(dependency_output, recipe_result),
                    CombineStderr(dependency_output, recipe_result),
                    CombineExitCode(dependency_output, recipe_result))

(***************************************************************************)
(* One activation of execute_recipe.  pc is the place the activation has   *)
(* reached: "deps" (the loop of line 71), "cmds" (the loop of line 213     *)
(* inside execute_commands), "merge" (execute_commands is returning, lines *)
(* 274-282 and 103-125), "ret" (the activation returns ret).  The fields   *)
(* id, began, text, own and dep_exit_codes are history: the activation's   *)
(* number, the length of runLog when it began, the body after              *)
(* substitution, what its execute_commands returned, and the exit codes    *)
(* of the results its dependencies returned, in order.                     *)
(***************************************************************************)
NoRecipe == Recipe("", <<>>, <<>>, <<>>)

Frame(recipe_name, args, recipe, param_values, pc, ret) ==
    [recipe_name |-> recipe_name, args |-> args, recipe |-> recipe,
     param_values |-> param_values, pc |-> pc, ret |-> ret,
     dep_i |-> 1, dependency_output |-> EmptyResult,
     body_lines |-> <<>>, line_i |-> 1,
     combined_stdout |-> <<>>, combined_stderr |-> <<>>, final_exit_code |-> 0,
     id |-> activations + 1, began |-> Len(runLog), text |-> None,
     own |-> None, dep_exit_codes |-> <<>>]

\* lines 58-61: the activation begins; find_recipe or validate_arguments may
\* end it at once
\* a slip: the body is substituted on entry, before the dependencies run
EnterSubstituting(recipe_name, args) ==
    LET found == find_recipe(justfile, recipe_name)
    IN IF ~found.ok
       THEN Frame(recipe_name, args, NoRecipe, EmptyMap, "ret", Err(found.error))
       ELSE LET bound == validate_arguments(found.value, args)
            IN IF ~bound.ok
               THEN Frame(recipe_name, args, found.value, EmptyMap, "ret",
                          Err(bound.error))
               ELSE IF \E porder \in Orders(bound.value),
                          vorder \in Orders(justfile.variables) :
                          ~substitute_parameters(found.value.body, bound.value,
                                                 justfile.variables,
                                                 porder, vorder).ok
               THEN Frame(recipe_name, args, found.value, bound.value, "ret",
                          Err(SubstitutionFailed))
               ELSE Frame(recipe_name, args, found.value, bound.value, "deps",
                          Ok(EmptyResult))

Enter(recipe_name, args) ==
    LET found == find_recipe(justfile, recipe_name)
    IN IF ~found.ok
       THEN Frame(recipe_name, args, NoRecipe, EmptyMap, "ret", Err(found.error))
       ELSE LET bound == validate_arguments(found.value, args)
            IN IF ~bound.ok
               THEN Frame(recipe_name, args, found.value, EmptyMap, "ret",
                          Err(bound.error))
               ELSE Frame(recipe_name, args, found.value, bound.value, "deps",
                          Ok(EmptyResult))

Top == stack[Len(stack)]
SetTop(f) == [stack EXCEPT ![Len(stack)] = f]
CallPath == [i \in 1..Len(stack) |-> stack[i].recipe_name]

\* history of a freshly entered activation that fails at once
RaisedBy(f, path) ==
    IF f.pc = "ret" /\ ~f.ret.ok
    THEN Some([path |-> path, error |-> f.ret.error])
    ELSE raised

\* A caller (CLI main.rs:101, MCP mcp_server.rs:189) calls execute_recipe.
Call(names, arglists) ==
    /\ stack = <<>>
    /\ result = None
    /\ \E recipe_name \in names, args \in arglists :
          LET f == Enter(recipe_name, args)
          IN /\ stack' = <<f>>
             /\ raised' = RaisedBy(f, <<recipe_name>>)
    /\ activations' = activations + 1
    /\ UNCHANGED <<server, cli, environment, parsing, justfile, result, dispatched, runLog>>

\* a slip: a dependency whose body has already been run in this call is not
\* run again
CallDependencyOnce ==
    /\ stack # <<>>
    /\ Top.pc = "deps"
    /\ Top.dep_i <= Len(Top.recipe.dependencies)
    /\ Len(stack) < MaxDepth
    /\ LET dep == Top.recipe.dependencies[Top.dep_i]
           f == Enter(dep, <<>>)
       IN IF \E k \in 1..Len(runLog) : runLog[k].recipe_name = dep
          THEN /\ stack' = SetTop([Top EXCEPT !.dep_i = Top.dep_i + 1])
               /\ raised' = raised
               /\ activations' = activations
          ELSE /\ stack' = Append(stack, f)
               /\ raised' = RaisedBy(f, Append(CallPath, dep))
               /\ activations' = activations + 1
    /\ UNCHANGED <<server, cli, environment, parsing, justfile, result, dispatched, runLog>>

\* a slip: a dependency that is already on the call chain is passed over
CallDependencyAcyclic ==
    /\ stack # <<>>
    /\ Top.pc = "deps"
    /\ Top.dep_i <= Len(Top.recipe.dependencies)
    /\ Len(stack) < MaxDepth
    /\ LET dep == Top.recipe.dependencies[Top.dep_i]
           f == Enter(dep, <<>>)
       IN IF \E k \in 1..Len(stack) : stack[k].recipe_name = dep
          THEN /\ stack' = SetTop([Top EXCEPT !.dep_i = Top.dep_i + 1])
               /\ raised' = raised
               /\ activations' = activations
          ELSE /\ stack' = Append(stack, f)
               /\ raised' = RaisedBy(f, Append(CallPath, dep))
               /\ activations' = activations + 1
    /\ UNCHANGED <<server, cli, environment, parsing, justfile, result, dispatched, runLog>>

\* line 72: the recursive call for the next dependency, with no arguments
CallDependency ==
    /\ stack # <<>>
    /\ Top.pc = "deps"
    /\ Top.dep_i <= Len(Top.recipe.dependencies)
    /\ Len(stack) < MaxDepth
    /\ LET dep == Top.recipe.dependencies[Top.dep_i]
           f == Enter(dep, <<>>)
       IN /\ stack' = Append(stack, f)
          /\ raised' = RaisedBy(f, Append(CallPath, dep))
    /\ activations' = activations + 1
    /\ UNCHANGED <<server, cli, environment, parsing, justfile, result, dispatched, runLog>>

\* a slip: fail-fast reaches the dependent: after a dependency whose result
\* has a non-zero exit code the dependent returns what it has accumulated
ReturnToDependentFailFast ==
    /\ Len(stack) > 1
    /\ Top.pc = "ret"
    /\ LET callee == Top
           caller == stack[Len(stack) - 1]
           dep == caller.recipe.dependencies[caller.dep_i]
           rest == SubSeq(stack, 1, Len(stack) - 2)
           output == IF callee.ret.ok
                     THEN AccumulateDependency(caller.dependency_output,
                                               callee.ret.value)
                     ELSE caller.dependency_output
       IN stack' = rest \o
            <<IF ~callee.ret.ok
              THEN [caller EXCEPT
                      !.pc = "ret",
                      !.ret = Err(DependencyFailed(caller.recipe_name, dep,
                                                   callee.ret.error))]
              ELSE IF callee.ret.value.exit_code # 0
              THEN [caller EXCEPT
                      !.pc = "ret",
                      !.dependency_output = output,
                      !.dep_exit_codes =
                          Append(caller.dep_exit_codes,
                                 callee.ret.value.exit_code),
                      !.ret = Ok(output)]
              ELSE [caller EXCEPT
                      !.dependency_output = output,
                      !.dep_exit_codes =
                          Append(caller.dep_exit_codes,
                                 callee.ret.value.exit_code),
                      !.dep_i = caller.dep_i + 1]>>
    /\ UNCHANGED <<server, cli, environment, parsing, justfile, result, dispatched, runLog, raised, activations>>

\* lines 72-94: the dependency's activation returns into the loop body
ReturnToDependent ==
    /\ Len(stack) > 1
    /\ Top.pc = "ret"
    /\ LET callee == Top
           caller == stack[Len(stack) - 1]
           dep == caller.recipe.dependencies[caller.dep_i]
           rest == SubSeq(stack, 1, Len(stack) - 2)
       IN stack' = rest \o
            <<IF ~callee.ret.ok
              THEN [caller EXCEPT
                      !.pc = "ret",
                      !.ret = Err(DependencyFailed(caller.recipe_name, dep,
                                                   callee.ret.error))]
              ELSE [caller EXCEPT
                      !.dependency_output =
                          AccumulateDependency(caller.dependency_output,
                                               callee.ret.value),
                      !.dep_exit_codes =
                          Append(caller.dep_exit_codes,
                                 callee.ret.value.exit_code),
                      !.dep_i = caller.dep_i + 1]>>
    /\ UNCHANGED <<server, cli, environment, parsing, justfile, result, dispatched, runLog, raised, activations>>

\* line 98: the dependencies are done; the body is substituted and
\* execute_commands entered
Substitute ==
    /\ stack # <<>>
    /\ Top.pc = "deps"
    /\ Top.dep_i > Len(Top.recipe.dependencies)
    /\ \E porder \in Orders(Top.param_values),
          vorder \in Orders(justfile.variables) :
          LET substituted_body ==
                  substitute_parameters(Top.recipe.body, Top.param_values,
                                        justfile.variables, porder, vorder)
              text == Substituted(Top.recipe.body, Top.param_values,
                                  justfile.variables, porder, vorder)
          IN IF ~substituted_body.ok
             THEN /\ stack' = SetTop([Top EXCEPT
                                        !.pc = "ret",
                                        !.text = Some(text),
                                        !.ret = Err(substituted_body.error)])
                  /\ raised' = Some([path |-> CallPath,
                                     error |-> substituted_body.error])
             ELSE /\ stack' = SetTop([Top EXCEPT
                                        !.pc = "cmds",
                                        !.text = Some(text),
                                        !.body_lines =
                                            lines(substituted_body.value)])
                  /\ raised' = raised
    /\ UNCHANGED <<server, cli, environment, parsing, justfile, result, dispatched, runLog, activations>>

\* lines 213-217: a blank or comment line of the body is passed over
SkipLine ==
    /\ stack # <<>>
    /\ Top.pc = "cmds"
    /\ Top.line_i <= Len(Top.body_lines)
    /\ Skipped(Top.body_lines[Top.line_i])
    /\ stack' = SetTop([Top EXCEPT !.line_i = Top.line_i + 1])
    /\ UNCHANGED <<server, cli, environment, parsing, justfile, result, dispatched, runLog, raised, activations>>

\* lines 219-271: a command line of the body is run through `sh -c`
RunLine(shell) ==
    /\ stack # <<>>
    /\ Top.pc = "cmds"
    /\ Top.line_i <= Len(Top.body_lines)
    /\ ~Skipped(Top.body_lines[Top.line_i])
    /\ LET line == Top.body_lines[Top.line_i]
           quiet == Quiet(line)
           command_line == CommandLine(line)
       IN \E output \in Outcomes(shell, command_line) :
            LET exit_code == unwrap_or(output.status, -1)
            IN /\ dispatched' = Append(dispatched,
                      [recipe_name |-> Top.recipe_name, id |-> Top.id,
                       line_i |-> Top.line_i, line |-> line,
                       command_line |-> command_line, quiet |-> quiet,
                       output |-> output])
               /\ IF ~output.spawned
                  THEN /\ stack' = SetTop([Top EXCEPT
                              !.pc = "ret",
                              !.ret = Err(ExecutionFailed(Top.recipe_name))])
                       /\ raised' = Some([path |-> CallPath,
                              error |-> ExecutionFailed(Top.recipe_name)])
                  ELSE /\ stack' = SetTop([Top EXCEPT
                              !.combined_stdout =
                                  CollectStdout(Top.combined_stdout,
                                                output.stdout, quiet),
                              !.combined_stderr =
                                  CollectStderr(Top.combined_stderr,
                                                output.stderr),
                              !.final_exit_code =
                                  IF exit_code # 0 THEN exit_code
                                  ELSE Top.final_exit_code,
                              !.pc = IF Breaks(exit_code) THEN "merge"
                                     ELSE "cmds",
                              !.line_i = Top.line_i + 1])
                       /\ raised' = raised
    /\ UNCHANGED <<server, cli, environment, parsing, justfile, result, runLog, activations>>

\* lines 274-282 and 103-125: execute_commands returns its ExecutionResult,
\* which is combined with the dependencies' output
Finish ==
    /\ stack # <<>>
    /\ \/ Top.pc = "merge"
       \/ Top.pc = "cmds" /\ Top.line_i > Len(Top.body_lines)
    /\ LET recipe_result ==
               ExecutionResult(Top.combined_stdout, Top.combined_stderr,
                               Top.final_exit_code)
       IN /\ stack' = SetTop([Top EXCEPT
                 !.pc = "ret",
                 !.own = Some(recipe_result),
                 !.ret = Ok(Combine(Top.dependency_output, recipe_result))])
          /\ runLog' = Append(runLog, [recipe_name |-> Top.recipe_name,
                                        id |-> Top.id,
                                        result |-> recipe_result])
    /\ UNCHANGED <<server, cli, environment, parsing, justfile, result, dispatched, raised, activations>>

\* the outermost activation returns to the caller of execute_recipe
Return ==
    /\ Len(stack) = 1
    /\ Top.pc = "ret"
    /\ result' = Some([recipe_name |-> Top.recipe_name, args |-> Top.args,
                       returned |-> Top.ret])
    /\ stack' = <<>>
    /\ UNCHANGED <<server, cli, environment, parsing, justfile, dispatched, runLog, raised, activations>>

(***************************************************************************)
(* parser.rs: parse_justfile_str and its helpers.                          *)
(***************************************************************************)
\* char::is_alphanumeric over the model's alphabet
IsAlphanumeric(c) ==
    c \in {"a", "b", "c", "d", "e", "f", "g", "h", "i", "j", "k", "l", "m",
           "n", "o", "p", "q", "r", "s", "t", "u", "v", "w", "x", "y", "z",
           "A", "B", "C", "D", "K", "L", "M", "X", "Y", "Z",
           "0", "1", "2", "3", "4", "5", "6", "7", "8", "9"}

\* str::find for a character: the index of its first occurrence, or None
find(s, c) ==
    IF \E i \in 1..Len(s) : s[i] = c
    THEN Some(CHOOSE i \in 1..Len(s) :
                  s[i] = c /\ \A k \in 1..(i - 1) : s[k] # c)
    ELSE None

\* str::split_once: the texts before and after the first c, or None
split_once(s, c) ==
    IF find(s, c) = None THEN None
    ELSE Some(<<SubSeq(s, 1, find(s, c)[1] - 1),
                SubSeq(s, find(s, c)[1] + 1, Len(s))>>)

\* str::split_whitespace: the maximal runs of non-whitespace characters
RECURSIVE split_whitespace(_)
split_whitespace(s) ==
    LET t == trim_start(s)
    IN IF t = <<>> THEN <<>>
       ELSE LET ends == {i \in 1..Len(t) : IsWhitespace(t[i])}
                n == IF ends = {} THEN Len(t)
                     ELSE (CHOOSE i \in ends : \A k \in ends : i <= k) - 1
            IN <<SubSeq(t, 1, n)>>
                 \o split_whitespace(SubSeq(t, n + 1, Len(t)))

\* lib.rs: a Recipe as the parser builds it, documentation included
ParsedRecipe(name, parameters, documentation, body, dependencies) ==
    [name |-> name, parameters |-> parameters,
     documentation |-> documentation, body |-> body,
     dependencies |-> dependencies]

\* lines 98-109
parse_variable_assignment(line) ==
    IF split_once(line, "=") = None THEN None
    ELSE LET key == trim(split_once(line, "=")[1][1])
             value == trim(split_once(line, "=")[1][2])
         IN IF /\ \A i \in 1..Len(key) :
                     IsAlphanumeric(key[i]) \/ key[i] = "_"
               /\ key # <<>>
            THEN Some(<<key, value>>)
            ELSE None

\* lines 155-181
parse_parameter(param_str) ==
    IF split_once(param_str, "=") # None
    THEN LET name == trim(split_once(param_str, "=")[1][1])
             default == trim_matches(
                            trim_matches(
                                trim(split_once(param_str, "=")[1][2]), "\""),
                            "'")
         IN Parameter(name, Some(default))
    ELSE LET name == trim(param_str)
         IN Parameter(IF strip_prefix(name, <<"*">>) # None
                      THEN strip_prefix(name, <<"*">>)[1]
                      ELSE name,
                      None)

\* lines 111-153: Some(recipe) for a header line, None for any other line
parse_recipe_line(line, documentation) ==
    IF find(line, ":") = None THEN None
    ELSE LET colon_pos == find(line, ":")[1]
             deps_part == trim(SubSeq(line, colon_pos + 1, Len(line)))
             header == trim(SubSeq(line, 1, colon_pos - 1))
             parts == split_whitespace(header)
         IN IF parts = <<>> THEN None
            ELSE Some(ParsedRecipe(
                     parts[1],
                     [i \in 1..(Len(parts) - 1) |-> parse_parameter(parts[i + 1])],
                     documentation,
                     <<>>,
                     split_whitespace(deps_part)))

\* a slip: the line number is the 0-based index of the line
ParseErrorZeroBased(line, message) == [line |-> line - 1, message |-> message]

\* ParserError::ParseError
ParseError(line, message) == [line |-> line, message |-> message]

\* format!("Unexpected content: {trimmed}")
UnexpectedContent(trimmed) ==
    <<"U", "n", "e", "x", "p", "e", "c", "t", "e", "d", " ",
      "c", "o", "n", "t", "e", "n", "t", ":", " ">> \o trimmed

\* the locals of parse_justfile_str before the loop (lines 31-34); pc tells
\* where the function is: not called, in the loop, or returned
BeginParse(content) ==
    [content |-> content, line_number |-> 0,
     recipes |-> <<>>, variables |-> EmptyMap,
     current_recipe |-> None, current_doc |-> None,
     returned |-> None, pc |-> "loop"]

NotParsing == [BeginParse(<<>>) EXCEPT !.pc = "idle"]

\* a slip: the line is appended without its indentation
push_trimmed(body, line) ==
    IF body # <<>> THEN body \o <<NL>> \o trim(line) ELSE trim(line)

\* lines 72-77: the line is appended to the body, after a newline unless
\* the body is empty
push_line(body, line) ==
    IF body # <<>> THEN body \o <<NL>> \o line ELSE line

\* a slip: the pending documentation is never cleared
take_nothing(p) == p

\* line 60: current_doc.take() leaves None behind
take(p) == [p EXCEPT !.current_doc = None]

\* lines 35-88: the body of the loop for one line of the content
OnLine(p, line) ==
    LET trimmed == trim(line)
        next == [p EXCEPT !.line_number = p.line_number + 1]
        stripped == strip_prefix(trimmed, <<"#">>)
        assignment == parse_variable_assignment(trimmed)
        parsed == parse_recipe_line(trimmed, p.current_doc)
        \* line 60: current_doc.take() is evaluated for every line that
        \* gets this far, a recipe header or not
        taken == take(next)
    IN IF trimmed = <<>> THEN next
       ELSE IF stripped # None
       THEN IF trim(stripped[1]) # <<>>
            THEN [next EXCEPT !.current_doc = Some(trim(stripped[1]))]
            ELSE next
       ELSE IF assignment # None
       THEN [next EXCEPT !.variables =
                 insert(p.variables, assignment[1][1], assignment[1][2])]
       ELSE IF parsed # None
       THEN [taken EXCEPT
                !.recipes = IF p.current_recipe # None
                            THEN Append(p.recipes, p.current_recipe[1])
                            ELSE p.recipes,
                !.current_recipe = parsed]
       ELSE IF StartsWith(line, <<TAB>>) \/ StartsWith(line, <<SP, SP, SP, SP>>)
       THEN IF p.current_recipe # None
            THEN [taken EXCEPT !.current_recipe =
                     Some([p.current_recipe[1] EXCEPT !.body =
                         push_line(p.current_recipe[1].body, line)])]
            ELSE taken
       ELSE [taken EXCEPT
                !.returned = Some(Err(ParseError(p.line_number + 1,
                                                 UnexpectedContent(trimmed)))),
                !.pc = "done"]

\* one iteration of the loop of parse_justfile_str
ParseLine ==
    /\ parsing.pc = "loop"
    /\ parsing.line_number < Len(lines(parsing.content))
    /\ parsing' = OnLine(parsing, lines(parsing.content)[parsing.line_number + 1])
    /\ UNCHANGED <<server, cli, environment, justfile, stack, result,
                   dispatched, runLog, raised, activations>>

\* lines 90-95: "Don't forget the last recipe", and the Justfile is returned
\* to the caller, which hands it to execute_recipe
ParseEnd ==
    /\ parsing.pc = "loop"
    /\ parsing.line_number = Len(lines(parsing.content))
    /\ LET recipes == IF parsing.current_recipe # None
                      THEN Append(parsing.recipes, parsing.current_recipe[1])
                      ELSE parsing.recipes
           parsed == Justfile(recipes, parsing.variables)
       IN /\ parsing' = [parsing EXCEPT !.recipes = recipes,
                                        !.current_recipe = None,
                                        !.returned = Some(Ok(parsed)),
                                        !.pc = "done"]
          /\ justfile' = parsed
    /\ UNCHANGED <<server, cli, environment, stack, result, dispatched,
                   runLog, raised, activations>>

(***************************************************************************)
(* mcp_server.rs: the run_recipe tool of JustMcpServer.  load_justfile     *)
(* reads the file system, which is outside the program: its result is one  *)
(* of the outcomes below.  The JSON texts are over an alphabet without     *)
(* backslash and without control characters other than tab and newline.    *)
(***************************************************************************)
\* lines 17-35: McpServerError; source is the wrapped error, if any
McpServerError(kind, source) == [kind |-> kind, source |-> source]

\* snafu's Display of an McpServerError: the fixed text of lines 19-34 and
\* the Display of the source, which executor.rs:19-46 forms from the
\* fields of the ExecutionError
to_string(err) ==
    [text |-> CASE err.kind = "ParseFailed" -> "Parse error: {}"
                [] err.kind = "ExecutionFailed" -> "Execution error: {}"
                [] err.kind = "IoError" -> "IO error: {}"
                [] err.kind = "SerializationError" -> "Serialization error: {}"
                [] err.kind = "JustfileNotFound"
                      -> "Justfile not found at path: {}"
                [] OTHER -> "Recipe '{}' not found",
     source |-> err.source]

\* lines 38-46: impl From<McpServerError> for McpError
McpError(err) == [code |-> -1, message |-> to_string(err), data |-> None]

\* rmcp: CallToolResult::success and CallToolResult::error
CallToolResultSuccess(content) == [content |-> content, is_error |-> Some(FALSE)]
CallToolResultError(content) == [content |-> content, is_error |-> Some(TRUE)]

\* serde_json: a string after its opening quote, up to the closing one:
\* the characters of the string and the text after the closing quote
json_string(s) ==
    LET k == find(s, "\"")
    IN IF k = None THEN None
       ELSE Some(<<SubSeq(s, 1, k[1] - 1), SubSeq(s, k[1] + 1, Len(s))>>)

\* serde_json: the elements of an array of strings after `[` or `,`
RECURSIVE json_elements(_, _)
json_elements(s, acc) ==
    LET t == trim_start(s)
    IN IF ~StartsWith(t, <<"\"">>) THEN None
       ELSE LET str == json_string(Tail(t))
            IN IF str = None THEN None
               ELSE LET u == trim_start(str[1][2])
                        values == Append(acc, str[1][1])
                    IN IF StartsWith(u, <<",">>)
                       THEN json_elements(Tail(u), values)
                       ELSE IF StartsWith(u, <<"]">>) /\ trim(Tail(u)) = <<>>
                       THEN Some(values)
                       ELSE None

\* line 182: serde_json::from_str::<Vec<String>>
from_str(s) ==
    LET t == trim_start(s)
    IN IF ~StartsWith(t, <<"[">>) THEN Err(McpServerError("SerializationError", None))
       ELSE LET u == trim_start(Tail(t))
                values == IF StartsWith(u, <<"]">>)
                          THEN IF trim(Tail(u)) = <<>> THEN Some(<<>>) ELSE None
                          ELSE json_elements(u, <<>>)
            IN IF values = None
               THEN Err(McpServerError("SerializationError", None))
               ELSE Ok(values[1])

\* serde_json: a string value as it is written, escaped and in quotes
RECURSIVE escape(_)
escape(s) ==
    IF s = <<>> THEN <<>>
    ELSE (CASE Head(s) = "\"" -> <<"\\", "\"">>
            [] Head(s) = "\\" -> <<"\\", "\\">>
            [] Head(s) = NL -> <<"\\", "n">>
            [] Head(s) = TAB -> <<"\\", "t">>
            [] OTHER -> <<Head(s)>>) \o escape(Tail(s))

json_text(s) == <<"\"">> \o escape(s) \o <<"\"">>

\* a slip: every run is reported as a success
ExecutionOutputAlwaysSuccessful(recipe_name, r) ==
    [recipe_name |-> recipe_name, stdout |-> r.stdout, stderr |-> r.stderr,
     exit_code |-> r.exit_code, success |-> TRUE]

\* lines 192-199: the ExecutionOutput built from the engine's result
ExecutionOutput(recipe_name, r) ==
    [recipe_name |-> recipe_name, stdout |-> r.stdout, stderr |-> r.stderr,
     exit_code |-> r.exit_code, success |-> r.exit_code = 0]

\* line 201: serde_json::to_string_pretty(&output): the members of the
\* object in the order of the struct's fields (lines 96-104), each string
\* escaped; recipe names of the pools hold nothing that is escaped
to_string_pretty(output) ==
    <<[key |-> "recipe_name", value |-> output.recipe_name],
      [key |-> "stdout", value |-> json_text(output.stdout)],
      [key |-> "stderr", value |-> json_text(output.stderr)],
      [key |-> "exit_code", value |-> output.exit_code],
      [key |-> "success", value |-> output.success]>>

\* Content::text
ContentText(text) == [type |-> "text", text |-> text]

\* lines 120-142: what load_justfile may return for the Justfile at hand
LoadOutcomes ==
    {Ok(justfile),
     Err(McpServerError("JustfileNotFound", None)),
     Err(McpServerError("IoError", None)),
     Err(McpServerError("ParseFailed", None))}

NotCalled == [pc |-> "idle", recipe_name |-> "", args |-> None, reply |-> None]

\* lines 177-189: run_recipe up to its call of execute_recipe; the ? of
\* lines 178 and 183 return the error at once
RunRecipe(names, argtexts) ==
    /\ server.pc = "idle"
    /\ stack = <<>>
    /\ result = None
    /\ \E recipe_name \in names, args \in argtexts, loaded \in LoadOutcomes :
          LET parsed_args == IF args # None THEN from_str(args[1]) ELSE Ok(<<>>)
              f == Enter(recipe_name, parsed_args.value)
              called == [pc |-> "executing", recipe_name |-> recipe_name,
                         args |-> args, reply |-> None]
          IN IF ~loaded.ok
             THEN /\ server' = [called EXCEPT
                                   !.pc = "replied",
                                   !.reply = Some(Err(McpError(loaded.error)))]
                  /\ UNCHANGED <<stack, raised, activations>>
             ELSE IF ~parsed_args.ok
             THEN /\ server' = [called EXCEPT
                                   !.pc = "replied",
                                   !.reply = Some(Err(McpError(parsed_args.error)))]
                  /\ UNCHANGED <<stack, raised, activations>>
             ELSE /\ server' = called
                  /\ stack' = <<f>>
                  /\ raised' = RaisedBy(f, <<recipe_name>>)
                  /\ activations' = activations + 1
    /\ UNCHANGED <<cli, environment, parsing, justfile, result, dispatched,
                   runLog>>

\* lines 189-208: execute_recipe has returned; the reply of the tool
RunRecipeReply ==
    /\ server.pc = "executing"
    /\ result # None
    /\ LET returned == result[1].returned
           output == ExecutionOutput(server.recipe_name, returned.value)
           content == to_string_pretty(output)
       IN server' = [server EXCEPT
              !.pc = "replied",
              !.reply = Some(
                  IF ~returned.ok
                  THEN Err(McpError(McpServerError("ExecutionFailed",
                                                   Some(returned.error))))
                  ELSE IF output.success
                  THEN Ok(CallToolResultSuccess(<<ContentText(content)>>))
                  ELSE Ok(CallToolResultError(<<ContentText(content)>>)))]
    /\ UNCHANGED <<cli, environment, parsing, justfile, stack, result,
                   dispatched, runLog, raised, activations>>

(***************************************************************************)
(* validator.rs and main.rs: the validation of the arguments and the run   *)
(* subcommand.                                                             *)
(***************************************************************************)
\* lines 5-14: ValidationResult and ValidationError; a message is kept as
\* the format text and the values formatted into it
ValidationError(parameter, message) ==
    [parameter |-> parameter, message |-> message]

ValidationResult(is_valid, errors) == [is_valid |-> is_valid, errors |-> errors]

ExtraParameter == <<"<", "e", "x", "t", "r", "a", ">">>

\* lines 45-54: the error for more arguments than parameters
TooManyArguments(params, args) ==
    IF Len(args) > Len(params)
    THEN <<ValidationError(ExtraParameter,
              [text |-> "Too many arguments: expected at most {}, got {}",
               expected |-> Len(params), got |-> Len(args), param |-> <<>>])>>
    ELSE <<>>

\* a slip: the loop ends at the first parameter that is missing
RECURSIVE MissingParametersFirstOnly(_, _, _)
MissingParametersFirstOnly(params, args, i) ==
    IF i > Len(params) THEN <<>>
    ELSE IF i > Len(args) /\ params[i].default_value = None
         THEN <<ValidationError(params[i].name,
                   [text |-> "Missing required parameter: {}",
                    expected |-> 0, got |-> 0, param |-> params[i].name])>>
         ELSE MissingParametersFirstOnly(params, args, i + 1)

\* lines 57-68: the loop over the parameters from the i-th on (i counts
\* from 1, the code's i from 0)
RECURSIVE MissingParameters(_, _, _)
MissingParameters(params, args, i) ==
    IF i > Len(params) THEN <<>>
    ELSE (IF i > Len(args) /\ params[i].default_value = None
          THEN <<ValidationError(params[i].name,
                    [text |-> "Missing required parameter: {}",
                     expected |-> 0, got |-> 0, param |-> params[i].name])>>
          ELSE <<>>)
         \o MissingParameters(params, args, i + 1)

\* lines 40-74: validator::validate_arguments
validator_validate_arguments(recipe, args) ==
    LET params == recipe.parameters
        errors == TooManyArguments(params, args)
                    \o MissingParameters(params, args, 1)
    IN ValidationResult(errors = <<>>, errors)

\* lines 77-94: get_signature_help
get_signature_help(recipe) ==
    [recipe_name |-> recipe.name,
     parameters |->
         [i \in 1..Len(recipe.parameters) |->
             [name |-> recipe.parameters[i].name,
              required |-> recipe.parameters[i].default_value = None,
              default_value |-> recipe.parameters[i].default_value,
              description |-> None]],
     documentation |-> IF "documentation" \in DOMAIN recipe
                       THEN recipe.documentation ELSE None]

\* a slip: every error but the first is dropped when the help is added
validate_with_help_first_only(recipe, args) ==
    LET r == validator_validate_arguments(recipe, args)
    IN IF r.is_valid THEN r
       ELSE [r EXCEPT !.errors = <<r.errors[1]>>]

\* lines 160-178: validate_with_help; the text of format_signature_help
\* (lines 97-157) is kept as the SignatureHelp it is formatted from
validate_with_help(recipe, args) ==
    LET r == validator_validate_arguments(recipe, args)
    IN IF ~r.is_valid /\ r.errors # <<>>
       THEN [r EXCEPT !.errors[1].message =
                [text |-> "{}\n\nExpected signature:\n{}",
                 message |-> r.errors[1].message,
                 help |-> get_signature_help(recipe)]]
       ELSE r

NotStarted ==
    [pc |-> "start", recipe_name |-> "", recipe |-> NoRecipe, args |-> <<>>,
     validation |-> None, exit |-> None, stdout |-> <<>>, stderr |-> <<>>]

\* a caller of the library (validator_test.rs) has validate_arguments
\* check an argument list against a recipe of the Justfile
ValidateArguments(arglists) ==
    /\ cli.pc = "start"
    /\ \E i \in 1..Len(justfile.recipes), args \in arglists :
          cli' = [cli EXCEPT
                     !.pc = "validated",
                     !.recipe_name = justfile.recipes[i].name,
                     !.recipe = justfile.recipes[i],
                     !.args = args,
                     !.validation =
                         Some(validator_validate_arguments(justfile.recipes[i],
                                                           args))]
    /\ UNCHANGED <<server, environment, parsing, justfile, stack, result,
                   dispatched, runLog, raised, activations>>

\* main.rs:82: justfile.recipes.iter().find(|r| r.name == *recipe_name)
main_find(jf, recipe_name) ==
    IF \E i \in 1..Len(jf.recipes) : jf.recipes[i].name = recipe_name
    THEN Some(jf.recipes[CHOOSE i \in 1..Len(jf.recipes) :
                  /\ jf.recipes[i].name = recipe_name
                  /\ \A k \in 1..(i - 1) : jf.recipes[k].name # recipe_name])
    ELSE None

\* main.rs:65-101: the run subcommand up to its call of execute_recipe;
\* parse_justfile reads the file system and may fail; stderr holds what
\* eprintln! was given
MainRun(names, arglists) ==
    /\ cli.pc = "start"
    /\ stack = <<>>
    /\ result = None
    /\ \E recipe_name \in names, args \in arglists, parsed \in {TRUE, FALSE} :
          LET found == main_find(justfile, recipe_name)
              validation == validate_with_help(found[1], args)
              f == Enter(recipe_name, args)
              started == [cli EXCEPT !.recipe_name = recipe_name,
                                     !.args = args]
          IN IF ~parsed
             THEN /\ cli' = [started EXCEPT
                                !.pc = "exited", !.exit = Some(1),
                                !.stderr = <<"Error parsing Justfile: {}">>]
                  /\ UNCHANGED <<stack, raised, activations>>
             ELSE IF found = None
             THEN /\ cli' = [started EXCEPT
                                !.pc = "exited", !.exit = Some(1),
                                !.stderr = <<"Recipe '{}' not found">>]
                  /\ UNCHANGED <<stack, raised, activations>>
             ELSE IF ~validation.is_valid
             THEN /\ cli' = [started EXCEPT
                                !.pc = "exited", !.exit = Some(1),
                                !.recipe = found[1],
                                !.validation = Some(validation),
                                !.stderr =
                                    [k \in 1..Len(validation.errors) |->
                                        validation.errors[k].message]]
                  /\ UNCHANGED <<stack, raised, activations>>
             ELSE /\ cli' = [started EXCEPT
                                !.pc = "executing",
                                !.recipe = found[1],
                                !.validation = Some(validation)]
                  /\ stack' = <<f>>
                  /\ raised' = RaisedBy(f, <<recipe_name>>)
                  /\ activations' = activations + 1
    /\ UNCHANGED <<server, environment, parsing, justfile, result, dispatched,
                   runLog>>

\* main.rs:101-115: execute_recipe has returned; the process exits
MainExit ==
    /\ cli.pc = "executing"
    /\ result # None
    /\ LET returned == result[1].returned
       IN cli' = IF returned.ok
                 THEN [cli EXCEPT !.pc = "exited",
                                  !.exit = Some(returned.value.exit_code),
                                  !.stdout = returned.value.stdout,
                                  !.stderr = returned.value.stderr]
                 ELSE [cli EXCEPT !.pc = "exited",
                                  !.exit = Some(1),
                                  !.stderr = <<returned.error>>]
    /\ UNCHANGED <<server, environment, parsing, justfile, stack, result,
                   dispatched, runLog, raised, activations>>

(***************************************************************************)
(* environment.rs: McpEnvironment.                                         *)
(***************************************************************************)
\* The fields variables, sources and snapshot are those of the struct
\* (lines 19-23).  process_env is the environment of the process, which
\* load_process_env reads and dotenvy writes; last and returned are the
\* method called last and what it returned; created, at_create, restored
\* and written are history: whether create_snapshot has been called with
\* no clear_snapshot since, the variables as they were at the most recent
\* create_snapshot, how often (counted up to 2) restore_from_snapshot has
\* succeeded since, and the keys inserted since.
ProcessEnv == [n \in {<<"L">>} |-> <<"3">>]

\* lines 54-60: McpEnvironment::new()
NoEnvironment ==
    [variables |-> EmptyMap, sources |-> <<>>, snapshot |-> None,
     process_env |-> ProcessEnv, last |-> "new", returned |-> None,
     created |-> FALSE, at_create |-> EmptyMap, restored |-> 0,
     written |-> {},
     expanding |-> [text |-> <<>>, result |-> <<>>, changed |-> FALSE,
                    iterations |-> 0, pos |-> 1, pc |-> "idle",
                    replacements |-> 0]]

\* HashMap::insert of every entry of the given map
insert_all(map, given) ==
    [k \in {j \in DOMAIN map : j \notin DOMAIN given} \cup DOMAIN given |->
        IF k \in DOMAIN given THEN given[k] ELSE map[k]]

\* EnvironmentError::SnapshotError
SnapshotError ==
    [kind |-> "SnapshotError",
     message |-> "No snapshot available to restore from"]

\* EnvironmentError::EnvFileLoad
EnvFileLoad(path) == [kind |-> "EnvFileLoad", path |-> path]

Returned(env, method, value) ==
    [env EXCEPT !.last = method, !.returned = Some(value)]

\* lines 68-73
load_process_env ==
    /\ Len(environment.sources) < MaxSources
    /\ environment' =
          Returned([environment EXCEPT
                       !.variables = insert_all(environment.variables,
                                                environment.process_env),
                       !.written = environment.written
                                      \cup DOMAIN environment.process_env,
                       !.sources = Append(environment.sources,
                                          [kind |-> "ProcessEnv"])],
                   "load_process_env", <<>>)
    /\ UNCHANGED <<server, cli, parsing, justfile, stack, result, dispatched,
                   runLog, raised, activations>>

\* lines 75-91: dotenvy::from_path fails, or sets in the environment of
\* the process each variable of the file that is not set there
load_env_file(files) ==
    /\ Len(environment.sources) + 1 < MaxSources
    /\ \E path \in DOMAIN files :
          IF files[path] = None
          THEN environment' = Returned(environment, "load_env_file",
                                       Err(EnvFileLoad(path)))
          ELSE LET process == insert_all(files[path][1],
                                         environment.process_env)
               IN environment' =
                     Returned([environment EXCEPT
                                  !.process_env = process,
                                  !.variables =
                                      insert_all(environment.variables,
                                                 process),
                                  !.written = environment.written
                                                 \cup DOMAIN process,
                                  !.sources =
                                      environment.sources
                                         \o <<[kind |-> "ProcessEnv"],
                                              [kind |-> "EnvFile",
                                               path |-> path]>>],
                              "load_env_file", Ok(<<>>))
    /\ UNCHANGED <<server, cli, parsing, justfile, stack, result, dispatched,
                   runLog, raised, activations>>

\* lines 93-98
set_server_config(names, maps) ==
    /\ Len(environment.sources) < MaxSources
    /\ \E config_name \in names, given \in maps :
          environment' =
             Returned([environment EXCEPT
                          !.variables = insert_all(environment.variables,
                                                   given),
                          !.written = environment.written \cup DOMAIN given,
                          !.sources = Append(environment.sources,
                                             [kind |-> "ServerConfig",
                                              name |-> config_name])],
                      "set_server_config", <<>>)
    /\ UNCHANGED <<server, cli, parsing, justfile, stack, result, dispatched,
                   runLog, raised, activations>>

\* lines 100-105
set_custom(maps) ==
    /\ Len(environment.sources) < MaxSources
    /\ \E given \in maps :
          environment' =
             Returned([environment EXCEPT
                          !.variables = insert_all(environment.variables,
                                                   given),
                          !.written = environment.written \cup DOMAIN given,
                          !.sources = Append(environment.sources,
                                             [kind |-> "Custom",
                                              vars |-> given])],
                      "set_custom", <<>>)
    /\ UNCHANGED <<server, cli, parsing, justfile, stack, result, dispatched,
                   runLog, raised, activations>>

\* lines 111-113
set(keys, values) ==
    /\ \E key \in keys, value \in values :
          environment' =
             Returned([environment EXCEPT
                          !.variables = insert(environment.variables, key,
                                               value),
                          !.written = environment.written \cup {key}],
                      "set", <<>>)
    /\ UNCHANGED <<server, cli, parsing, justfile, stack, result, dispatched,
                   runLog, raised, activations>>

\* lines 116-118
create_snapshot ==
    /\ environment' =
          Returned([environment EXCEPT
                       !.snapshot = Some(environment.variables),
                       !.created = TRUE,
                       !.at_create = environment.variables,
                       !.restored = 0,
                       !.written = {}],
                   "create_snapshot", <<>>)
    /\ UNCHANGED <<server, cli, parsing, justfile, stack, result, dispatched,
                   runLog, raised, activations>>

\* a slip: the snapshot is laid over the variables, not put in their place
restore_merging(env) ==
    IF env.snapshot # None
    THEN Returned([env EXCEPT
                      !.variables = insert_all(env.variables, env.snapshot[1]),
                      !.restored = IF env.restored < 2 THEN env.restored + 1
                                   ELSE 2],
                  "restore_from_snapshot", Ok(<<>>))
    ELSE Returned(env, "restore_from_snapshot", Err(SnapshotError))

\* a slip: without a snapshot the variables are emptied
restore_or_empty(env) ==
    IF env.snapshot # None
    THEN Returned([env EXCEPT
                      !.variables = env.snapshot[1],
                      !.restored = IF env.restored < 2 THEN env.restored + 1
                                   ELSE 2],
                  "restore_from_snapshot", Ok(<<>>))
    ELSE Returned([env EXCEPT !.variables = EmptyMap],
                  "restore_from_snapshot", Ok(<<>>))

\* lines 121-131: the environment after restore_from_snapshot
restore(env) ==
    IF env.snapshot # None
    THEN Returned([env EXCEPT
                      !.variables = env.snapshot[1],
                      !.restored = IF env.restored < 2 THEN env.restored + 1
                                   ELSE 2],
                  "restore_from_snapshot", Ok(<<>>))
    ELSE Returned(env, "restore_from_snapshot", Err(SnapshotError))

restore_from_snapshot ==
    /\ environment' = restore(environment)
    /\ UNCHANGED <<server, cli, parsing, justfile, stack, result, dispatched,
                   runLog, raised, activations>>

\* lines 134-136
clear_snapshot ==
    /\ environment' =
          Returned([environment EXCEPT !.snapshot = None, !.created = FALSE],
                   "clear_snapshot", <<>>)
    /\ UNCHANGED <<server, cli, parsing, justfile, stack, result, dispatched,
                   runLog, raised, activations>>

(***************************************************************************)
(* environment.rs: expand_variables.  expanding holds its locals: result,  *)
(* changed, iterations, pos (the index, counted from 1, from which the     *)
(* $VAR loop searches) and pc, the place it has reached: "while" (line     *)
(* 174), "braces" (the loop of line 179), "dollars" (the loop of line      *)
(* 198) or "done".  replacements is history: the parity of the number of   *)
(* replacements made, which tells a loop that goes round on one result     *)
(* from a function that has stopped.                                       *)
(***************************************************************************)
MAX_ITERATIONS == 10

NotExpanding == NoEnvironment.expanding

\* EnvironmentError::InvalidMcpConfig of lines 233-235
InvalidMcpConfig ==
    [kind |-> "InvalidMcpConfig",
     message |-> "Too many variable expansion iterations - possible circular reference"]

\* str::find of a pattern: the index of its first occurrence from index
\* from on, or None
find_from(s, pat, from) ==
    LET at == {i \in from..(Len(s) - Len(pat) + 1) :
                  SubSeq(s, i, i + Len(pat) - 1) = pat}
    IN IF at = {} THEN None
       ELSE Some(CHOOSE i \in at : \A j \in at : i <= j)

\* String::replace_range: the characters first..last give way to the
\* replacement
replace_range(s, first, last, replacement) ==
    SubSeq(s, 1, first - 1) \o replacement \o SubSeq(s, last + 1, Len(s))

\* lines 182-187 and 216-221: the variable of the environment, or else of
\* the process, or else the empty string
replacement_of(env, var_name) ==
    IF var_name \in DOMAIN env.variables THEN env.variables[var_name]
    ELSE IF var_name \in DOMAIN env.process_env THEN env.process_env[var_name]
    ELSE <<>>

\* lines 209-212: the index of the last character of the variable name
\* that begins at var_start (var_start - 1 when there is none)
RECURSIVE name_end(_, _)
name_end(s, var_start) ==
    IF var_start <= Len(s) /\ (IsAlphanumeric(s[var_start]) \/ s[var_start] = "_")
    THEN name_end(s, var_start + 1)
    ELSE var_start - 1

\* lines 166-172: expand_variables is called on a text
expand_variables(texts) ==
    /\ environment.expanding.pc = "idle"
    /\ \E text \in texts :
          environment' = [environment EXCEPT
              !.last = "expand_variables",
              !.returned = None,
              !.expanding = [text |-> text, result |-> text, changed |-> TRUE,
                             iterations |-> 0, pos |-> 1, pc |-> "while",
                             replacements |-> 0]]
    /\ UNCHANGED <<server, cli, parsing, justfile, stack, result, dispatched,
                   runLog, raised, activations>>

\* a slip: the budget of passes is never found exhausted
ExpandReturnsUnchecked(e) == Ok(e.result)

\* lines 232-238: what expand_variables returns after the loop
ExpandReturns(e) ==
    IF e.iterations >= MAX_ITERATIONS THEN Err(InvalidMcpConfig)
    ELSE Ok(e.result)

\* lines 174-176 and 232-238: the test of the outer loop; a pass begins, or
\* the function returns
ExpandPass ==
    /\ environment.expanding.pc = "while"
    /\ LET e == environment.expanding
       IN IF e.changed /\ e.iterations < MAX_ITERATIONS
          THEN environment' = [environment EXCEPT
                  !.expanding = [e EXCEPT !.changed = FALSE,
                                          !.iterations = e.iterations + 1,
                                          !.pc = "braces"]]
          ELSE environment' = [environment EXCEPT
                  !.returned = Some(ExpandReturns(e)),
                  !.expanding = [e EXCEPT !.pc = "done"]]
    /\ UNCHANGED <<server, cli, parsing, justfile, stack, result, dispatched,
                   runLog, raised, activations>>

\* lines 179-194: one turn of the ${VAR} loop
ExpandBraces ==
    /\ environment.expanding.pc = "braces"
    /\ LET e == environment.expanding
           start == find_from(e.result, <<"$", "{">>, 1)
           end == find_from(e.result, <<"}">>, start[1])
           var_name == SubSeq(e.result, start[1] + 2, end[1] - 1)
       IN IF start # None /\ end # None
          THEN environment' = [environment EXCEPT
                  !.expanding =
                      [e EXCEPT
                          !.result = replace_range(e.result, start[1], end[1],
                                         replacement_of(environment, var_name)),
                          !.changed = TRUE,
                          !.replacements = 1 - e.replacements]]
          ELSE environment' = [environment EXCEPT
                  !.expanding = [e EXCEPT !.pc = "dollars", !.pos = 1]]
    /\ UNCHANGED <<server, cli, parsing, justfile, stack, result, dispatched,
                   runLog, raised, activations>>

\* lines 198-229: one turn of the $VAR loop
ExpandDollars ==
    /\ environment.expanding.pc = "dollars"
    /\ LET e == environment.expanding
           dollar == find_from(e.result, <<"$">>, e.pos)
           abs_pos == dollar[1]
           var_end == name_end(e.result, abs_pos + 1)
           var_name == SubSeq(e.result, abs_pos + 1, var_end)
           replacement == replacement_of(environment, var_name)
       IN IF dollar = None
          THEN environment' = [environment EXCEPT
                  !.expanding = [e EXCEPT !.pc = "while"]]
          ELSE IF abs_pos + 1 <= Len(e.result) /\ e.result[abs_pos + 1] = "{"
          THEN environment' = [environment EXCEPT
                  !.expanding = [e EXCEPT !.pos = abs_pos + 1]]
          ELSE IF var_end > abs_pos
          THEN environment' = [environment EXCEPT
                  !.expanding =
                      [e EXCEPT
                          !.result = replace_range(e.result, abs_pos, var_end,
                                                   replacement),
                          !.changed = TRUE,
                          !.pos = abs_pos + Len(replacement),
                          !.replacements = 1 - e.replacements]]
          ELSE environment' = [environment EXCEPT
                  !.expanding = [e EXCEPT !.pos = abs_pos + 1]]
    /\ UNCHANGED <<server, cli, parsing, justfile, stack, result, dispatched,
                   runLog, raised, activations>>

(***************************************************************************)
(* The inputs.  execute_recipe takes any Justfile value (the fields of     *)
(* lib.rs are public); the parser checks neither that recipe names differ  *)
(* (parser.rs:59-68), nor that parameter names differ (parser.rs:128-131), *)
(* nor that a dependency names a recipe (parser.rs:134-141).  Bodies with  *)
(* blank or comment lines come from callers that build the value (or from  *)
(* substitution): parse_justfile_str keeps no such line in a body.         *)
(***************************************************************************)
\* all sequences over S of length at most n
RECURSIVE SeqsUpTo(_, _)
SeqsUpTo(S, n) ==
    IF n = 0 THEN {<<>>}
    ELSE LET shorter == SeqsUpTo(S, n - 1)
         IN shorter \cup {Append(q, x) : q \in {r \in shorter : Len(r) = n - 1},
                                         x \in S}

RecipeNames == <<"a", "b", "c">>
Missing == "z"      \* a name no recipe of any pool bears
CallNames == {RecipeNames[i] : i \in 1..Len(RecipeNames)} \cup {Missing}

\* Graph pool: three recipes without parameters, the i-th running, after a
\* comment line, the single command i; names may repeat; at most MaxEdges dependency names in all.
\* A Justfile with a dependency cycle is in the pool when each recipe of it
\* has at most one dependency or names no recipe by its first.
GraphNamings ==
    {n \in [1..3 -> {"a", "b", "c"}] :
        /\ n[1] = "a"
        /\ n[2] \in {"a", "b"}
        /\ n[3] = "c" => n[2] = "b"}

GraphBody(i) == <<TAB, "#", NL, TAB, <<"1", "2", "3">>[i]>>

GraphDependencies ==
    {d \in [1..3 -> SeqsUpTo(CallNames, MaxEdges)] :
        Len(d[1]) + Len(d[2]) + Len(d[3]) <= MaxEdges}

\* recipe i names, among its dependencies, the recipe that lookup resolves
\* to recipe j
DependsOn(n, d, i, j) ==
    \E k \in 1..Len(d[i]) :
        /\ n[j] = d[i][k]
        /\ \A l \in 1..(j - 1) : n[l] # d[i][k]

Cyclic(n, d) ==
    \E i, j, k \in 1..3 :
        \/ DependsOn(n, d, i, i)
        \/ DependsOn(n, d, i, j) /\ DependsOn(n, d, j, i)
        \/ DependsOn(n, d, i, j) /\ DependsOn(n, d, j, k) /\ DependsOn(n, d, k, i)

GraphJustfiles ==
    {Justfile([i \in 1..3 |-> Recipe(nd[1][i], <<>>, GraphBody(i), nd[2][i])],
              EmptyMap) :
        nd \in {x \in GraphNamings \X GraphDependencies :
                   Cyclic(x[1], x[2]) =>
                       \A i \in 1..3 : \/ Len(x[2][i]) <= 1
                                       \/ x[2][i][1] = Missing}}

InitHistory ==
    /\ parsing = NotParsing
    /\ server = NotCalled
    /\ cli = NotStarted
    /\ environment = NoEnvironment
    /\ stack = <<>>
    /\ result = None
    /\ dispatched = <<>>
    /\ runLog = <<>>
    /\ raised = None
    /\ activations = 0

\* Argument pool: recipe a with any parameter list, called with any argument
\* list; its body mentions each of its parameters, in order, and ends with a
\* comment line; it may depend
\* on b, which may require a parameter.
ArgValues == {<<"v">>, <<"w">>}
ParamNames == {<<"p">>, <<"q">>}
Parameters ==
    {Parameter(n, d) : n \in ParamNames, d \in {None, Some(<<"d">>)}}

RECURSIVE Mentions(_)
Mentions(params) ==
    IF params = <<>> THEN <<>>
    ELSE Pattern(Head(params).name) \o Mentions(Tail(params))

ArgsJustfiles ==
    {Justfile(<<Recipe("a", ps, <<TAB, "x">> \o Mentions(ps) \o <<NL, TAB, "#">>,
                       deps),
                Recipe("b", bps, <<TAB, "y">> \o Mentions(bps), <<>>)>>,
              EmptyMap) :
        ps \in SeqsUpTo(Parameters, MaxParams),
        deps \in {<<>>, <<"b">>},
        bps \in SeqsUpTo({Parameter(<<"p">>, None)}, 1)}

ArgLists == SeqsUpTo(ArgValues, MaxParams + 1)

\* Command pool: recipe a has any body of at most MaxLines lines of
\* CommandLines; it may depend on b, whose body is a comment.
CommandLines ==
    {<<TAB, "x">>,                            \* a command, tab-indented
     <<SP, SP, SP, SP, "@", "y">>,            \* a quiet command, four spaces
     <<TAB, SP, "@", "w">>,                   \* an @ that is no prefix
     <<TAB, "#", "c">>,                       \* a comment
     <<TAB>>}                                 \* a blank line

RECURSIVE JoinBody(_)
JoinBody(ls) ==
    IF ls = <<>> THEN <<>>
    ELSE IF Len(ls) = 1 THEN ls[1]
         ELSE ls[1] \o <<NL>> \o JoinBody(Tail(ls))

Bodies(pool) == {JoinBody(ls) : ls \in SeqsUpTo(pool, MaxLines)}

CommandJustfiles ==
    {Justfile(<<Recipe("a", <<>>, body, deps),
                Recipe("b", <<>>, <<TAB, "#", "b">>, <<>>)>>,
              EmptyMap) :
        body \in Bodies(CommandLines), deps \in {<<>>, <<"b">>}}

\* Substitution pool: recipe a, with one defaulted parameter p, has any body
\* of at most MaxLines lines of PlaceholderLines, under any variable map of
\* the pool; it may depend on b.
PlaceholderLines ==
    {<<TAB, "x">>,                            \* no braces
     <<TAB>> \o Pattern(<<"p">>),             \* the parameter
     <<TAB, "e">> \o Pattern(<<"v">>),        \* a variable
     <<TAB, "}", "}", "{", "{">>,             \* closing before opening
     <<TAB, "{", "{">>,                       \* opening only
     <<TAB, "{", "{", "p", "}", "}">>}        \* the parameter, no spaces

VariableMaps ==
    {EmptyMap,
     [n \in {<<"v">>} |-> <<"\"", "X", "\"">>],
     [n \in {<<"v">>, <<"p">>} |-> <<"Y">>],
     [n \in {<<"v">>} |-> <<"\"", "'", "X", "'", "\"">>],
     [n \in {<<"v">>} |-> <<"\"", "X">>]}

SubstJustfiles ==
    {Justfile(<<Recipe("a", <<Parameter(<<"p">>, Some(<<"d">>))>>, body, deps),
                Recipe("b", <<>>, <<TAB, "#", "b">>, <<>>)>>,
              variables) :
        body \in Bodies(PlaceholderLines), deps \in {<<>>, <<"b">>},
        variables \in VariableMaps}

Init ==
    /\ justfile \in GraphJustfiles
    /\ InitHistory

Next ==
    \/ Call(CallNames, {<<>>, << <<"v">> >>})
    \/ CallDependency
    \/ ReturnToDependent
    \/ Substitute
    \/ SkipLine
    \/ RunLine("typical")
    \/ Finish
    \/ Return

Spec == Init /\ [][Next]_vars

InitArgs ==
    /\ justfile \in ArgsJustfiles
    /\ InitHistory

NextArgs ==
    \/ Call({"a", "b", Missing}, ArgLists)
    \/ CallDependency
    \/ ReturnToDependent
    \/ Substitute
    \/ SkipLine
    \/ RunLine("any")
    \/ Finish
    \/ Return

SpecArgs == InitArgs /\ [][NextArgs]_vars

InitBody ==
    /\ justfile \in CommandJustfiles
    /\ InitHistory

NextBody ==
    \/ Call({"a", "b", Missing}, {<<>>})
    \/ CallDependency
    \/ ReturnToDependent
    \/ Substitute
    \/ SkipLine
    \/ RunLine("any")
    \/ Finish
    \/ Return

SpecBody == InitBody /\ [][NextBody]_vars

InitSubst ==
    /\ justfile \in SubstJustfiles
    /\ InitHistory

NextSubst ==
    \/ Call({"a", "b", Missing}, SeqsUpTo({<<"v">>}, 1))
    \/ CallDependency
    \/ ReturnToDependent
    \/ Substitute
    \/ SkipLine
    \/ RunLine("typical")
    \/ Finish
    \/ Return

SpecSubst == InitSubst /\ [][NextSubst]_vars

\* Comment pool: recipe a has any body of at most MaxLines lines of
\* CommentLines, all of them blank or comments, may require a parameter p
\* and may depend on b, which runs one command.
CommentLines ==
    {<<TAB, "#", "c">>,                       \* a comment
     <<TAB>>,                                 \* a blank line
     <<SP, SP, SP, SP, SP, "#">>,             \* a comment after five spaces
     <<TAB, "#">> \o Pattern(<<"p">>),        \* a comment naming p
     <<TAB, "#", "{", "{", "u", "}", "}">>}   \* a comment with both markers

CommentJustfiles ==
    {Justfile(<<Recipe("a", ps, body, deps),
                Recipe("b", <<>>, <<TAB, "y">>, <<>>)>>,
              EmptyMap) :
        ps \in SeqsUpTo({Parameter(<<"p">>, None)}, 1),
        body \in Bodies(CommentLines) \ {<<>>},
        deps \in {<<>>, <<"b">>}}

\* argument texts: a word, and a line break followed by a word
CommentArgs == {<<"v">>, <<NL, "r">>}

InitComments ==
    /\ justfile \in CommentJustfiles
    /\ InitHistory

NextComments ==
    \/ Call({"a", "b", Missing}, SeqsUpTo(CommentArgs, 1))
    \/ CallDependency
    \/ ReturnToDependent
    \/ Substitute
    \/ SkipLine
    \/ RunLine("typical")
    \/ Finish
    \/ Return

SpecComments == InitComments /\ [][NextComments]_vars

\* Parse pool: every text of at most MaxContent lines of ParseLines.
ParseLines ==
    {<<SP>>,                                  \* blank
     <<"#", SP, "d">>,                        \* a comment
     <<"#">>,                                 \* an empty comment
     <<TAB, "#", SP, "e">>,                   \* an indented comment
     <<"v", "=", "1">>,                       \* a variable assignment
     <<TAB, "w", "=", "2">>,                  \* an indented assignment
     <<"a", ":">>,                            \* a recipe header
     <<"b", ":", SP, "a">>,                   \* a header with a dependency
     <<TAB, "c", ":">>,                       \* an indented header
     <<TAB, "x">>,                            \* indented by a tab
     <<SP, SP, SP, SP, "y">>,                 \* indented by four spaces
     <<SP, SP, "x">>,                         \* indented by two spaces
     <<":">>,                                 \* a colon after nothing
     <<"k", SP, "k", "=", "1">>}              \* an = after no identifier

Contents(pool) == {JoinBody(ls) : ls \in SeqsUpTo(pool, MaxContent)}

\* before parse_justfile_str is called on the content
InitParsing(content) ==
    /\ parsing = BeginParse(content)
    /\ server = NotCalled
    /\ cli = NotStarted
    /\ environment = NoEnvironment
    /\ justfile = Justfile(<<>>, EmptyMap)
    /\ stack = <<>>
    /\ result = None
    /\ dispatched = <<>>
    /\ runLog = <<>>
    /\ raised = None
    /\ activations = 0

InitParse == \E content \in Contents(ParseLines) : InitParsing(content)

NextParse ==
    \/ ParseLine
    \/ ParseEnd

SpecParse == InitParse /\ [][NextParse]_vars

\* Run pool: every text of at most MaxContent recipes of RecipeTexts, each
\* a header line and one body line; recipe a is declared in several ways.
RecipeTexts ==
    {<<"a", ":", NL, TAB, "1">>,
     <<"a", ":", NL, TAB, "2">>,
     <<"b", ":", SP, "a", NL, TAB, "3">>,
     <<"a", SP, "p", ":", NL, TAB>> \o Pattern(<<"p">>) \o <<"x">>,
     <<"a", SP, "p", "=", "d", ":", NL, TAB>> \o Pattern(<<"p">>) \o <<"x">>,
     <<"a", SP, "*", "p", ":", NL, TAB>> \o Pattern(<<"p">>) \o <<"x">>,
     <<"a", SP, "*", "p", "=", "d", ":", NL, TAB>>
        \o Pattern(<<"p">>) \o <<"x">>}

\* argument lists of the run pool: none, a word, a #
RunArgLists == {<<>>, << <<"v">> >>, << <<"#">> >>}

InitParseRun == \E content \in Contents(RecipeTexts) : InitParsing(content)

\* the caller hands the Justfile that parse_justfile_str returned to
\* execute_recipe (main.rs, mcp_server.rs)
CallParsed(names, arglists) ==
    /\ parsing.returned # None
    /\ parsing.returned[1].ok
    /\ Call(names, arglists)

NextParseRun ==
    \/ ParseLine
    \/ ParseEnd
    \/ CallParsed({<<"a">>, <<"b">>, <<"z">>}, RunArgLists)
    \/ CallDependency
    \/ ReturnToDependent
    \/ Substitute
    \/ SkipLine
    \/ RunLine("typical")
    \/ Finish
    \/ Return

SpecParseRun == InitParseRun /\ [][NextParseRun]_vars

\* Sharing pool: recipes a, b, c without parameters, bodies as in the graph
\* pool; a depends on up to two of b and c, b on c up to twice, c on
\* nothing, so that c may be the dependency of both a and b.
SharedDependencies ==
    {d \in [1..3 -> SeqsUpTo({"b", "c"}, 2)] :
        /\ d[1] # <<>>
        /\ \A k \in 1..Len(d[2]) : d[2][k] = "c"
        /\ d[3] = <<>>}

SharedJustfiles ==
    {Justfile([i \in 1..3 |-> Recipe(RecipeNames[i], <<>>, GraphBody(i), d[i])],
              EmptyMap) :
        d \in SharedDependencies}

InitShared ==
    /\ justfile \in SharedJustfiles
    /\ InitHistory

NextShared ==
    \/ Call({"a", "b", "c"}, {<<>>})
    \/ CallDependency
    \/ ReturnToDependent
    \/ Substitute
    \/ SkipLine
    \/ RunLine("typical")
    \/ Finish
    \/ Return

SpecShared == InitShared /\ [][NextShared]_vars

\* The graph pool under the scheduling of the program: execute_recipe is
\* sequential code, so whenever it has a next step it takes it.
SpecFair == Init /\ [][Next]_vars /\ WF_vars(Next)

\* Server pool: recipe a, with or without a required parameter p, has any
\* body of at most MaxLines lines of ServerLines and may depend on b; the
\* tool is called with any of ArgTexts as its args.
ServerLines ==
    {<<TAB, "x">>,                            \* a command
     <<TAB, "@", "\"">>,                      \* a quiet command of one quote
     <<TAB, "#">>}                            \* a comment

ServerJustfiles ==
    {Justfile(<<Recipe("a", ps, body, deps),
                Recipe("b", <<>>, <<TAB, "y">>, <<>>)>>,
              EmptyMap) :
        ps \in SeqsUpTo({Parameter(<<"p">>, None)}, 1),
        body \in Bodies(ServerLines), deps \in {<<>>, <<"b">>}}

ArgTexts ==
    {None,
     Some(<<"[", "]">>),
     Some(<<"[", "\"", "v", "\"", "]">>),
     Some(<<SP, "[", SP, "\"", "v", "\"", SP, ",", "\"", "w", "\"", "]", NL>>),
     Some(<<"[", "1", "]">>),                 \* an array of a number
     Some(<<"[", "\"", "v", "]">>),           \* a string that does not end
     Some(<<"[", "\"", "v", "\"", "]", "x">>),  \* a character after the array
     Some(<<"\"", "v", "\"">>),               \* a string, no array
     Some(<<>>)}                              \* nothing

InitServer ==
    /\ justfile \in ServerJustfiles
    /\ InitHistory

NextServer ==
    \/ RunRecipe({"a", Missing}, ArgTexts)
    \/ CallDependency
    \/ ReturnToDependent
    \/ Substitute
    \/ SkipLine
    \/ RunLine("typical")
    \/ Finish
    \/ Return
    \/ RunRecipeReply

SpecServer == InitServer /\ [][NextServer]_vars

\* Validation pool: a recipe of the argument pool and an argument list of
\* it, handed to validator::validate_arguments.
InitValidate ==
    /\ justfile \in ArgsJustfiles
    /\ InitHistory

NextValidate == ValidateArguments(ArgLists)

SpecValidate == InitValidate /\ [][NextValidate]_vars

\* Environment pool: an McpEnvironment after new(), on which the methods
\* that take &mut self are called in any order with the keys K and L, the
\* values 1 and 2 and the maps and the files below.
EnvKeys == {<<"K">>, <<"L">>}
EnvValues == {<<"1">>, <<"2">>}
EnvMaps ==
    {[n \in {<<"K">>} |-> <<"2">>],
     [n \in {<<"K">>, <<"L">>} |-> <<"1">>]}
EnvFiles ==
    [path \in {"missing", ".env"} |->
        IF path = "missing" THEN None
        ELSE Some([n \in {<<"K">>, <<"L">>} |-> <<"4">>])]

InitEnv ==
    /\ justfile = Justfile(<<>>, EmptyMap)
    /\ InitHistory

NextEnv ==
    \/ load_process_env
    \/ load_env_file(EnvFiles)
    \/ set_server_config({"s"}, EnvMaps)
    \/ set_custom(EnvMaps)
    \/ set(EnvKeys, EnvValues)
    \/ create_snapshot
    \/ restore_from_snapshot
    \/ clear_snapshot

SpecEnv == InitEnv /\ [][NextEnv]_vars

\* Expansion pool: an McpEnvironment whose variables, put there by set,
\* are one of ExpandMaps, and a text of ExpandTexts to expand.  No value
\* of the pool is longer than the ${VAR} that names it.
ExpandMaps ==
    {[n \in {<<"A">>, <<"B">>} |->
         IF n = <<"A">> THEN <<"x">> ELSE <<"$", "A">>],
     [n \in {<<"A">>} |-> <<"$", "A">>],
     [n \in {<<"A">>} |-> <<"$", "{", "A", "}">>],
     [n \in {<<"A">>, <<"B">>} |->
         IF n = <<"A">> THEN <<"$", "{", "B", "}">>
         ELSE <<"$", "{", "A", "}">>]}

ExpandTexts ==
    {<<"$", "{", "A", "}", "_", "$", "B">>,   \* both syntaxes
     <<"$", "A">>,
     <<"$", "{", "B", "}">>,
     <<"a">>,                                 \* nothing to expand
     <<"$", "{", "A">>,                       \* no closing brace
     <<"$">>,                                 \* no name
     <<"$", "{", "M", "}", "y">>,             \* a variable nobody has set
     <<"$", "L", "-">>}                       \* a variable of the process

InitExpand ==
    /\ justfile = Justfile(<<>>, EmptyMap)
    /\ parsing = NotParsing
    /\ server = NotCalled
    /\ cli = NotStarted
    /\ environment \in {[NoEnvironment EXCEPT !.variables = variables, !.last = "set"] :
                           variables \in ExpandMaps}
    /\ stack = <<>>
    /\ result = None
    /\ dispatched = <<>>
    /\ runLog = <<>>
    /\ raised = None
    /\ activations = 0

NextExpand ==
    \/ expand_variables(ExpandTexts)
    \/ ExpandPass
    \/ ExpandBraces
    \/ ExpandDollars

\* expand_variables is sequential code: whenever it has a next step it
\* takes it
SpecExpand == InitExpand /\ [][NextExpand]_vars /\ WF_vars(NextExpand)

\* Order pool: recipe a has two defaulted parameters p and q and any body of
\* at most MaxLines lines of OrderLines; an argument or a variable value may
\* itself be a placeholder naming another parameter or variable.  It may
\* depend on b, whose body is one command.
OrderLines ==
    {<<TAB, "#">>,                            \* a comment line
     <<TAB, "x">>,                            \* no placeholder
     <<TAB>> \o Pattern(<<"p">>),             \* the first parameter
     <<TAB, "e">> \o Pattern(<<"v">>)}        \* a variable

OrderValues == {<<"Z">>, Pattern(<<"q">>), Pattern(<<"w">>)}

\* none, one or two arguments, and three: one more than a has parameters
OrderArgLists == SeqsUpTo(OrderValues, 2) \cup {<<<<"Z">>, <<"Z">>, <<"Z">>>>}

OrderVariableMaps ==
    {EmptyMap,
     [n \in {<<"v">>} |-> <<"X">>],
     [n \in {<<"v">>, <<"w">>} |->
         IF n = <<"v">> THEN Pattern(<<"w">>) ELSE <<"X">>],
     [n \in {<<"v">>, <<"w">>} |->
         IF n = <<"v">> THEN Pattern(<<"w">>) ELSE Pattern(<<"v">>)]}

OrderJustfiles ==
    {Justfile(<<Recipe("a", <<Parameter(<<"p">>, Some(<<"d">>)),
                              Parameter(<<"q">>, Some(<<"d">>))>>,
                       body, deps),
                Recipe("b", <<>>, <<TAB, "b">>, <<>>)>>,
              variables) :
        body \in Bodies(OrderLines), deps \in {<<>>, <<"b">>},
        variables \in OrderVariableMaps}

InitOrder ==
    /\ justfile \in OrderJustfiles
    /\ InitHistory

NextOrder ==
    \/ Call({"a", Missing}, OrderArgLists)
    \/ CallDependency
    \/ ReturnToDependent
    \/ Substitute
    \/ SkipLine
    \/ RunLine("typical")
    \/ Finish
    \/ Return

SpecOrder == InitOrder /\ [][NextOrder]_vars

\* Command-line pool: the run subcommand on a Justfile of the argument pool,
\* with any recipe name and argument list of it.
InitCli ==
    /\ justfile \in ArgsJustfiles
    /\ InitHistory

NextCli ==
    \/ MainRun({"a", "b", Missing}, ArgLists)
    \/ CallDependency
    \/ ReturnToDependent
    \/ Substitute
    \/ SkipLine
    \/ RunLine("typical")
    \/ Finish
    \/ Return
    \/ MainExit

SpecCli == InitCli /\ [][NextCli]_vars

(***************************************************************************)
(* The properties.  An activation of execute_recipe that returns is, in    *)
(* the state before it returns, the top of the stack with pc = "ret".      *)
(***************************************************************************)
Returning == stack # <<>> /\ Top.pc = "ret"
ReturningOk == Returning /\ Top.ret.ok

\* C1, as stated: every execute_recipe call that returns a result returns
\* its own commands' exit code when that is non-zero, the dependencies'
\* accumulated code only when its own is zero, and 0 only when both are.
C1_OwnExitCodeWins ==
    ReturningOk =>
        LET own == Top.own[1].exit_code
            dep == Top.dependency_output.exit_code
        IN /\ own # 0 => Top.ret.value.exit_code = own
           /\ own = 0 => Top.ret.value.exit_code = dep

\* C1, amended: every execute_recipe call that returns a result returns the
\* dependencies' accumulated exit code when that is non-zero, its own
\* commands' exit code only when the accumulated one is zero, and so 0 only
\* when both are zero.
C1_DependencyExitCodeWins ==
    ReturningOk =>
        LET own == Top.own[1].exit_code
            dep == Top.dependency_output.exit_code
        IN /\ dep # 0 => Top.ret.value.exit_code = dep
           /\ dep = 0 => Top.ret.value.exit_code = own
           /\ Top.ret.value.exit_code = 0 <=> (own = 0 /\ dep = 0)

\* C1's case: both codes non-zero and different
C1_Witness ==
    /\ ReturningOk
    /\ Top.own[1].exit_code # 0
    /\ Top.dependency_output.exit_code # 0
    /\ Top.own[1].exit_code # Top.dependency_output.exit_code

\* the commands one activation dispatched, in order
DispatchedBy(id) == SelectSeq(dispatched, LAMBDA e : e.id = id)

\* the exit code of a dispatched command; -1 when a signal ended it
ExitCodeOf(e) == IF e.output.status = None THEN -1 ELSE e.output.status[1]

Succeeded(e) == e.output.spawned /\ ExitCodeOf(e) = 0

\* texts joined by one newline between non-empty ones, empty ones left out
RECURSIVE JoinNonEmpty(_)
JoinNonEmpty(parts) ==
    IF parts = <<>> THEN <<>>
    ELSE LET rest == JoinNonEmpty(Tail(parts))
         IN IF Head(parts) = <<>> THEN rest
            ELSE IF rest = <<>> THEN Head(parts)
                 ELSE Head(parts) \o <<NL>> \o rest

\* a line of a body is a command unless it is blank or a comment
IsCommand(line) ==
    \E i \in 1..Len(line) :
        /\ ~IsWhitespace(line[i])
        /\ line[i] # "#"
        /\ \A k \in 1..(i - 1) : IsWhitespace(line[k])

\* the command lines of the body that follow line i
LaterCommands(f, i) ==
    {k \in (i + 1)..Len(f.body_lines) : IsCommand(f.body_lines[k])}

\* C2: within one recipe body no command line is dispatched after one that
\* failed; the recipe's own exit code is that of the first failing command,
\* and 0 if every dispatched command exited 0.
C2_FailFast ==
    /\ \A i, j \in 1..Len(dispatched) :
          (i < j /\ dispatched[i].id = dispatched[j].id)
              => Succeeded(dispatched[i])
    /\ ReturningOk =>
          LET mine == DispatchedBy(Top.id)
              failing == {i \in 1..Len(mine) : ExitCodeOf(mine[i]) # 0}
          IN /\ failing = {} => Top.own[1].exit_code = 0
             /\ failing # {} =>
                   LET first == CHOOSE i \in failing : \A k \in failing : i <= k
                   IN /\ Top.own[1].exit_code = ExitCodeOf(mine[first])
                      /\ first = Len(mine)

\* C2's case: a command failed and command lines of the body follow it
C2_Witness ==
    /\ ReturningOk
    /\ Top.own[1].exit_code # 0
    /\ LET mine == DispatchedBy(Top.id)
       IN /\ mine # <<>>
          /\ LaterCommands(Top, mine[Len(mine)].line_i) # {}

\* the recipe a name resolves to: the first one bearing it
Resolve(name) ==
    justfile.recipes[CHOOSE i \in 1..Len(justfile.recipes) :
                        /\ justfile.recipes[i].name = name
                        /\ \A k \in 1..(i - 1) : justfile.recipes[k].name # name]

\* the dependency tree below a name in post-order: the trees of its
\* dependencies, in declaration order, then the name itself
RECURSIVE PostOrder(_), PostOrderOfAll(_)
PostOrder(name) == PostOrderOfAll(Resolve(name).dependencies) \o <<name>>
PostOrderOfAll(names) ==
    IF names = <<>> THEN <<>>
    ELSE PostOrder(Head(names)) \o PostOrderOfAll(Tail(names))

\* what execute_commands returned within the returning activation: for its
\* dependencies' trees and then for its own body
RunsBelowTop == SubSeq(runLog, Top.began + 1, Len(runLog))

\* C3: the stdout a call returns is the own outputs of the recipes of its
\* dependency tree in post-order, the non-empty ones joined by one newline,
\* nothing added next to an empty one; and so is the stderr.
C3_PostOrderOutput ==
    ReturningOk =>
        LET runs == RunsBelowTop
        IN /\ [i \in 1..Len(runs) |-> runs[i].recipe_name]
                  = PostOrder(Top.recipe_name)
           /\ Top.ret.value.stdout
                  = JoinNonEmpty([i \in 1..Len(runs) |-> runs[i].result.stdout])
           /\ Top.ret.value.stderr
                  = JoinNonEmpty([i \in 1..Len(runs) |-> runs[i].result.stderr])

\* C3's case: a chain C -> B -> A has run, all three printing to stdout, and
\* to stderr the first and the last only
C3_Witness ==
    /\ ReturningOk
    /\ Len(stack) = 1
    /\ Len(Top.recipe.dependencies) = 1
    /\ Len(Resolve(Top.recipe.dependencies[1]).dependencies) = 1
    /\ LET runs == RunsBelowTop
       IN /\ Len(runs) = 3
          /\ \A i \in 1..3 : runs[i].result.stdout # <<>>
          /\ runs[1].result.stderr # <<>>
          /\ runs[2].result.stderr = <<>>
          /\ runs[3].result.stderr # <<>>

\* the error e, raised at the end of the call path, as the activation at
\* position d of the path returns it: wrapped once per edge below d
RECURSIVE Wrapped(_, _, _)
Wrapped(path, d, e) ==
    IF d >= Len(path) THEN e
    ELSE [kind |-> "DependencyFailed", recipe_name |-> path[d],
          dependency |-> path[d + 1], message |-> NoMessage,
          source |-> <<Wrapped(path, d + 1, e)>>]

\* how many DependencyFailed errors are nested around the innermost cause
RECURSIVE Nesting(_)
Nesting(e) ==
    IF e.kind = "DependencyFailed" THEN 1 + Nesting(e.source[1]) ELSE 0

\* C4: an activation to which a dependency returned an error returns
\* DependencyFailed naming itself and the dependency, the cause unchanged;
\* so an error raised k calls down reaches the caller in k nested
\* DependencyFailed errors, one per edge of the call chain, in chain order.
C4_ErrorsNestAlongTheChain ==
    /\ (Returning /\ ~Top.ret.ok) =>
          /\ raised # None
          /\ Len(stack) <= Len(raised[1].path)
          /\ CallPath = SubSeq(raised[1].path, 1, Len(stack))
          /\ Top.ret.error = Wrapped(raised[1].path, Len(stack), raised[1].error)
          /\ Nesting(Top.ret.error) = Len(raised[1].path) - Len(stack)
    /\ (result # None /\ ~result[1].returned.ok) =>
          /\ result[1].returned.error
                 = Wrapped(raised[1].path, 1, raised[1].error)
          /\ Nesting(result[1].returned.error) = Len(raised[1].path) - 1
          /\ raised[1].error.kind # "DependencyFailed"

\* C4's case: an error raised two calls down has reached the caller
C4_Witness ==
    /\ result # None
    /\ ~result[1].returned.ok
    /\ Len(raised[1].path) = 3
    /\ raised[1].path[1] # raised[1].path[2]
    /\ raised[1].error.kind = "ExecutionFailed"

\* the text holds "{{" somewhere and "}}" somewhere
HoldsBothMarkers(text) ==
    /\ \E i \in 1..(Len(text) - 1) : text[i] = "{" /\ text[i + 1] = "{"
    /\ \E j \in 1..(Len(text) - 1) : text[j] = "}" /\ text[j + 1] = "}"

\* the activation on top has returned SubstitutionFailed itself
SubstitutionFailedAtTop ==
    /\ Top.pc = "ret"
    /\ ~Top.ret.ok
    /\ Top.ret.error.kind = "SubstitutionFailed"

\* C5: substitution fails with SubstitutionFailed exactly when the body, all
\* parameters and variables replaced, still holds both "{{" and "}}", in
\* any order; otherwise it succeeds and the body's commands are dispatched.
C5_SubstitutionFailsOnBothMarkers ==
    (stack # <<>> /\ Top.text # None) =>
        LET text == Top.text[1]
            mine == DispatchedBy(Top.id)
        IN /\ SubstitutionFailedAtTop <=> HoldsBothMarkers(text)
           /\ SubstitutionFailedAtTop => mine = <<>>
           /\ ~HoldsBothMarkers(text) =>
                 /\ Top.body_lines = lines(text)
                 /\ \A k \in 1..Len(mine) :
                       /\ mine[k].line = Top.body_lines[mine[k].line_i]
                       /\ IsCommand(mine[k].line)
                 /\ (ReturningOk /\ Top.own[1].exit_code = 0) =>
                       [k \in 1..Len(mine) |-> mine[k].line]
                           = SelectSeq(Top.body_lines, IsCommand)

\* C5's case: substitution failed on a body in which "}}" comes before "{{"
\* and no parameter or variable is referred to
C5_Witness ==
    /\ stack # <<>>
    /\ SubstitutionFailedAtTop
    /\ Top.text = Some(<<TAB, "}", "}", "{", "{">>)

\* some recipe of the Justfile bears the name
Declared(name) ==
    \E i \in 1..Len(justfile.recipes) : justfile.recipes[i].name = name

\* every call of execute_recipe made so far that has not yet returned to its
\* caller, as [recipe_name, args, pc, ret, param_values, id], and the
\* outermost one once it has returned
Calls ==
    {[recipe_name |-> stack[i].recipe_name, args |-> stack[i].args,
      returned |-> stack[i].pc = "ret", ret |-> stack[i].ret,
      param_values |-> stack[i].param_values, id |-> stack[i].id] :
        i \in 1..Len(stack)}
    \cup {[recipe_name |-> result[i].recipe_name, args |-> result[i].args,
           returned |-> TRUE, ret |-> result[i].returned,
           param_values |-> EmptyMap, id |-> 1] : i \in 1..Len(result)}

FailedWith(c, kind) == c.returned /\ ~c.ret.ok /\ c.ret.error.kind = kind

\* C6: a call of a declared recipe with more arguments than the recipe has
\* parameters fails with InvalidArguments "Expected at most N arguments,
\* got M", whatever the arguments, defaults, dependencies and body.
C6_TooManyArguments ==
    \A c \in Calls :
        (Declared(c.recipe_name)
           /\ Len(c.args) > Len(Resolve(c.recipe_name).parameters))
        => /\ c.returned
           /\ ~c.ret.ok
           /\ c.ret.error =
                 [kind |-> "InvalidArguments", recipe_name |-> c.recipe_name,
                  dependency |-> "",
                  message |-> [text |-> "Expected at most {} arguments, got {}",
                               expected |-> Len(Resolve(c.recipe_name).parameters),
                               got |-> Len(c.args), param |-> <<>>],
                  source |-> <<>>]
           /\ dispatched = <<>>

\* C6's case: three arguments for a recipe of two parameters, which has
\* defaults and a dependency
C6_Witness ==
    /\ result # None
    /\ Len(result[1].args) = 3
    /\ Declared(result[1].recipe_name)
    /\ LET r == Resolve(result[1].recipe_name)
       IN /\ Len(r.parameters) = 2
          /\ r.parameters[2].default_value # None
          /\ r.dependencies # <<>>

\* the parameters of the called recipe that get no argument and have no
\* default
Unbound(c) ==
    LET params == Resolve(c.recipe_name).parameters
    IN {i \in (Len(c.args) + 1)..Len(params) : params[i].default_value = None}

\* C7: with no more arguments than parameters, the call fails with
\* InvalidArguments naming the lowest-index parameter that gets no argument
\* and has no default; when there is none, argument binding succeeds.
C7_MissingRequiredParameter ==
    \A c \in Calls :
        (Declared(c.recipe_name)
           /\ Len(c.args) <= Len(Resolve(c.recipe_name).parameters))
        => LET params == Resolve(c.recipe_name).parameters
           IN /\ Unbound(c) # {} =>
                    LET lowest == CHOOSE i \in Unbound(c) :
                                      \A k \in Unbound(c) : i <= k
                    IN /\ FailedWith(c, "InvalidArguments")
                       /\ c.ret.error.recipe_name = c.recipe_name
                       /\ c.ret.error.message =
                             [text |-> "Missing required parameter: {}",
                              expected |-> 0, got |-> 0,
                              param |-> params[lowest].name]
              /\ Unbound(c) = {} => ~FailedWith(c, "InvalidArguments")

\* C7's case: two required parameters of different names, no argument
C7_Witness ==
    /\ result # None
    /\ result[1].args = <<>>
    /\ Declared(result[1].recipe_name)
    /\ LET params == Resolve(result[1].recipe_name).parameters
       IN /\ Len(params) = 2
          /\ params[1].default_value = None
          /\ params[2].default_value = None
          /\ params[1].name # params[2].name
    /\ FailedWith([returned |-> TRUE, ret |-> result[1].returned],
                  "InvalidArguments")

\* the calls in progress whose arguments were bound: the recipe is declared,
\* no more arguments than parameters, each parameter past the arguments has
\* a default
Bound ==
    {i \in 1..Len(stack) :
        /\ Declared(stack[i].recipe_name)
        /\ Len(stack[i].args) <= Len(Resolve(stack[i].recipe_name).parameters)
        /\ Unbound(stack[i]) = {}}

\* the value the parameter at index i gets on its own: its argument, else
\* its default
ValueAt(f, i) ==
    IF i <= Len(f.args) THEN f.args[i]
    ELSE Resolve(f.recipe_name).parameters[i].default_value[1]

\* the last parameter bearing the name of the parameter at index i
LastOfName(f, i) ==
    LET params == Resolve(f.recipe_name).parameters
    IN CHOOSE k \in i..Len(params) :
          /\ params[k].name = params[i].name
          /\ \A j \in (k + 1)..Len(params) : params[j].name # params[i].name

RECURSIVE Concat(_)
Concat(texts) ==
    IF texts = <<>> THEN <<>> ELSE Head(texts) \o Concat(Tail(texts))

\* the command of the body (one character, then a placeholder of each
\* parameter in index order) with the placeholder of the parameter at index
\* i replaced by V(f, i)
Replaced(f, V(_, _)) ==
    LET r == Resolve(f.recipe_name)
    IN <<r.body[2]>>
         \o Concat([i \in 1..Len(r.parameters) |-> V(f, i)])

\* C8 as stated: the name of the parameter at index i is bound to, and
\* replaced by, the argument at index i, else the default of that parameter.
C8_BoundByIndex ==
    \A n \in Bound :
        LET f == stack[n]
            params == Resolve(f.recipe_name).parameters
        IN /\ \A i \in 1..Len(params) :
                 /\ params[i].name \in DOMAIN f.param_values
                 /\ f.param_values[params[i].name] = ValueAt(f, i)
           /\ \A k \in 1..Len(dispatched) :
                 dispatched[k].id = f.id
                    => dispatched[k].command_line = Replaced(f, ValueAt)

ValueOfName(f, i) == ValueAt(f, LastOfName(f, i))

\* C8, what the code does instead: the name of the parameter at index i is
\* bound to, and replaced by, the value of the LAST parameter bearing that
\* name (its argument, else its default); that is the value of the parameter
\* at index i itself only when no later parameter repeats its name.
C8_BoundByLastOfName ==
    \A n \in Bound :
        LET f == stack[n]
            params == Resolve(f.recipe_name).parameters
        IN /\ DOMAIN f.param_values = {params[i].name : i \in 1..Len(params)}
           /\ \A i \in 1..Len(params) :
                 /\ f.param_values[params[i].name] = ValueOfName(f, i)
                 /\ LastOfName(f, i) = i
                       => f.param_values[params[i].name] = ValueAt(f, i)
           /\ \A k \in 1..Len(dispatched) :
                 dispatched[k].id = f.id
                    => dispatched[k].command_line = Replaced(f, ValueOfName)

\* C8's case: two parameters of one name, the first given an argument, the
\* second left to a default that differs from it, and the command dispatched
C8_Witness ==
    /\ 1 \in Bound
    /\ LET f == stack[1]
           params == Resolve(f.recipe_name).parameters
       IN /\ Len(params) = 2
          /\ params[1].name = params[2].name
          /\ Len(f.args) = 1
          /\ ValueAt(f, 1) # ValueAt(f, 2)
          /\ \E k \in 1..Len(dispatched) : dispatched[k].id = f.id

\* C9: a call with a name that no recipe bears fails with RecipeNotFound
\* carrying exactly that name; a call with a name that some recipe bears
\* does not fail with RecipeNotFound for it.
C9_RecipeNotFound ==
    \A c \in Calls :
        /\ ~Declared(c.recipe_name) =>
              /\ FailedWith(c, "RecipeNotFound")
              /\ c.ret.error.recipe_name = c.recipe_name
              /\ c.ret.error.source = <<>>
        /\ Declared(c.recipe_name) => ~FailedWith(c, "RecipeNotFound")

\* C9's case: the outermost call returned for a name that two recipes bear,
\* and a name that no recipe bears was called as well
C9_Witness ==
    /\ result # None
    /\ Cardinality({i \in 1..Len(justfile.recipes) :
                      justfile.recipes[i].name = result[1].recipe_name}) = 2
    /\ \E i \in 1..Len(raised) : raised[i].error.kind = "RecipeNotFound"

\* the length of the indentation execute_commands removes from a body line:
\* one tab, else four spaces, else nothing
Indentation(line) ==
    IF Len(line) >= 1 /\ line[1] = TAB THEN 1
    ELSE IF Len(line) >= 4 /\ \A k \in 1..4 : line[k] = SP THEN 4
    ELSE 0

\* the body line is a command prefixed with @
AtPrefixed(line) ==
    /\ IsCommand(line)
    /\ Len(line) > Indentation(line)
    /\ line[Indentation(line) + 1] = "@"

\* C10: a command line prefixed with @ is dispatched (without the @) like
\* any other and its failure ends the body with its exit code, its standard
\* output is never added to the recipe's stdout, and its standard error is
\* added to the recipe's stderr as that of any other command.
C10_QuietCommands ==
    /\ \A k \in 1..Len(dispatched) :
          LET e == dispatched[k]
          IN AtPrefixed(e.line) =>
                /\ e.command_line =
                      SubSeq(e.line, Indentation(e.line) + 2, Len(e.line))
                /\ ExitCodeOf(e) # 0 =>
                      \A j \in (k + 1)..Len(dispatched) :
                          dispatched[j].id # e.id
    /\ ReturningOk =>
          LET mine == DispatchedBy(Top.id)
              own == Top.own[1]
          IN /\ own.stdout =
                   JoinNonEmpty([i \in 1..Len(mine) |->
                       IF AtPrefixed(mine[i].line) THEN <<>>
                       ELSE mine[i].output.stdout])
             /\ own.stderr =
                   JoinNonEmpty([i \in 1..Len(mine) |-> mine[i].output.stderr])
             /\ (mine # <<>> /\ AtPrefixed(mine[Len(mine)].line)
                   /\ ExitCodeOf(mine[Len(mine)]) # 0)
                => own.exit_code = ExitCodeOf(mine[Len(mine)])
             /\ (\A i \in 1..Len(mine) : Succeeded(mine[i]))
                => \A k \in 1..Len(Top.body_lines) :
                      IsCommand(Top.body_lines[k])
                         => \E i \in 1..Len(mine) : mine[i].line_i = k

\* C10's case: a command prefixed with @ wrote to both streams and exited 0,
\* and a command without the prefix then wrote to standard output
C10_Witness ==
    /\ ReturningOk
    /\ LET mine == DispatchedBy(Top.id)
       IN /\ Len(mine) = 2
          /\ AtPrefixed(mine[1].line)
          /\ mine[1].output.stdout # <<>>
          /\ mine[1].output.stderr # <<>>
          /\ ~AtPrefixed(mine[2].line)
          /\ mine[2].output.stdout # <<>>

\* every line of the text is blank or, once trimmed, begins with #
RECURSIVE SplitAt(_, _)
SplitAt(text, sep) ==
    IF \A i \in 1..Len(text) : text[i] # sep THEN <<text>>
    ELSE LET i == CHOOSE k \in 1..Len(text) :
                     text[k] = sep /\ \A j \in 1..(k - 1) : text[j] # sep
         IN <<SubSeq(text, 1, i - 1)>>
              \o SplitAt(SubSeq(text, i + 1, Len(text)), sep)

OnlyComments(text) ==
    \A k \in 1..Len(SplitAt(text, NL)) :
        LET line == SplitAt(text, NL)[k]
        IN \/ \A i \in 1..Len(line) : IsWhitespace(line[i])
           \/ \E i \in 1..Len(line) :
                 /\ line[i] = "#"
                 /\ \A j \in 1..(i - 1) : IsWhitespace(line[j])

\* C11 as stated: a call of a recipe whose body has only blank and comment
\* lines (with arguments that bind) returns a result with exit code 0 and
\* empty stdout and stderr.
C11_CommentBodyReturnsEmpty ==
    \A i \in 1..Len(result) :
        (Declared(result[i].recipe_name)
           /\ OnlyComments(Resolve(result[i].recipe_name).body)
           /\ Len(result[i].args)
                 = Len(Resolve(result[i].recipe_name).parameters))
        => /\ result[i].returned.ok
           /\ result[i].returned.value = ExecutionResult(<<>>, <<>>, 0)

\* C11, amended: when the body of the recipe AFTER substitution has only
\* blank and comment lines and does not hold both {{ and }}, the activation
\* dispatches no command, its own result is empty with exit code 0, and it
\* returns what its dependencies accumulated: empty output and exit code 0
\* when the recipe has no dependencies.
C11_CommentBodyAddsNothing ==
    (/\ Returning
     /\ Top.text # None
     /\ OnlyComments(Top.text[1])
     /\ ~(Contains(Top.text[1], <<"{", "{">>)
            /\ Contains(Top.text[1], <<"}", "}">>)))
    => /\ Top.ret.ok
       /\ DispatchedBy(Top.id) = <<>>
       /\ Top.own = Some(ExecutionResult(<<>>, <<>>, 0))
       /\ Top.ret.value = Top.dependency_output
       /\ Top.recipe.dependencies = <<>>
             => Top.ret.value = ExecutionResult(<<>>, <<>>, 0)

\* C11's case: a recipe whose body is comments returns the output and the
\* non-zero exit code of its dependency
C11_Witness ==
    /\ Returning
    /\ Len(stack) = 1
    /\ Top.text # None
    /\ OnlyComments(Top.recipe.body)
    /\ Top.ret.ok
    /\ Top.ret.value.stdout # <<>>
    /\ Top.ret.value.exit_code # 0

\* the dispatched commands of the body line that is `e` followed by the
\* placeholder of the variable v, in a Justfile that declares v
VariableCommands ==
    {k \in 1..Len(dispatched) :
        /\ <<"v">> \in DOMAIN justfile.variables
        /\ LET raw == SplitAt(Resolve(dispatched[k].recipe_name).body, NL)
           IN /\ dispatched[k].line_i <= Len(raw)
              /\ raw[dispatched[k].line_i]
                   = <<TAB, "e", "{", "{", " ", "v", " ", "}", "}">>}

IsQuote(c) == c = "\"" \/ c = "'"

\* the value without one layer of surrounding quotes, unchanged when it has
\* no such layer
OneLayerStripped(value) ==
    IF Len(value) >= 2 /\ IsQuote(value[1]) /\ value[Len(value)] = value[1]
    THEN SubSeq(value, 2, Len(value) - 1)
    ELSE value

\* C12 as stated: the text inserted for a variable is its stored value with
\* exactly one layer of surrounding quotes removed, and the stored value
\* itself when it has no surrounding quotes.
C12_OneLayerStripped ==
    \A k \in VariableCommands :
        dispatched[k].command_line
            = <<"e">> \o OneLayerStripped(justfile.variables[<<"v">>])

\* the value without its leading and trailing characters c
Inside(value, c) ==
    LET kept == {i \in 1..Len(value) : value[i] # c}
    IN IF kept = {} THEN <<>>
       ELSE SubSeq(value,
                   CHOOSE i \in kept : \A j \in kept : i <= j,
                   CHOOSE i \in kept : \A j \in kept : j <= i)

\* C12, what the code does instead: the text inserted is the stored value
\* without any of its leading and trailing double quotes, and then without
\* any of its leading and trailing single quotes, paired or not.
C12_EveryOuterQuoteStripped ==
    \A k \in VariableCommands :
        dispatched[k].command_line
            = <<"e">> \o Inside(Inside(justfile.variables[<<"v">>], "\""), "'")

\* C12's case: a value with single quotes inside double quotes was inserted
C12_Witness ==
    \E k \in VariableCommands :
        /\ Len(justfile.variables[<<"v">>]) = 5
        /\ OneLayerStripped(justfile.variables[<<"v">>]) = <<"'", "X", "'">>

\* the outermost call has returned and the body of its recipe is the one
\* line that mentions the declared parameter p as {{p}}
CompactCall ==
    /\ result # None
    /\ Declared(result[1].recipe_name)
    /\ LET r == Resolve(result[1].recipe_name)
       IN /\ r.body = <<TAB, "{", "{", "p", "}", "}">>
          /\ \E i \in 1..Len(r.parameters) : r.parameters[i].name = <<"p">>
          /\ Len(result[1].args) <= Len(r.parameters)

\* C13 as stated: a recipe whose body mentions a declared parameter as
\* {{name}} runs without a substitution error, with the argument supplied
\* or defaulted, and returns exit code 0 (its command exiting 0).
C13_CompactPlaceholderSucceeds ==
    CompactCall =>
        /\ ~FailedWith([returned |-> TRUE, ret |-> result[1].returned],
                       "SubstitutionFailed")
        /\ (\A k \in 1..Len(dispatched) : Succeeded(dispatched[k]))
              => /\ result[1].returned.ok
                 /\ result[1].returned.value.exit_code = 0

\* C13, what the code does instead: such a call always fails with
\* SubstitutionFailed and dispatches nothing, the argument supplied or not.
C13_CompactPlaceholderFails ==
    CompactCall =>
        /\ FailedWith([returned |-> TRUE, ret |-> result[1].returned],
                      "SubstitutionFailed")
        /\ dispatched = <<>>

\* C13's case: such a call with the argument supplied has returned
C13_Witness ==
    /\ CompactCall
    /\ result[1].args = << <<"v">> >>

\* the kinds of a physical line, each told from the text of the line alone
IsBlank(line) == \A i \in 1..Len(line) : IsWhitespace(line[i])

IsComment(line) ==
    \E i \in 1..Len(line) :
        line[i] = "#" /\ \A j \in 1..(i - 1) : IsWhitespace(line[j])

\* an identifier (letters, digits, _; not empty), whitespace around it
\* allowed, stands before the first =
IsAssignment(line) ==
    \E i \in 1..Len(line) :
        /\ line[i] = "="
        /\ \A j \in 1..(i - 1) : line[j] # "="
        /\ \E j \in 1..(i - 1) : ~IsWhitespace(line[j])
        /\ \A j \in 1..(i - 1) :
              \/ IsAlphanumeric(line[j]) \/ line[j] = "_"
              \/ /\ IsWhitespace(line[j])
                 /\ \/ \A k \in 1..j : IsWhitespace(line[k])
                    \/ \A k \in j..(i - 1) : IsWhitespace(line[k])

\* something other than whitespace stands before the first colon
IsHeader(line) ==
    \E i \in 1..Len(line) :
        /\ line[i] = ":"
        /\ \A j \in 1..(i - 1) : line[j] # ":"
        /\ \E j \in 1..(i - 1) : ~IsWhitespace(line[j])

IsIndented(line) ==
    \/ Len(line) >= 1 /\ line[1] = TAB
    \/ Len(line) >= 4 /\ \A i \in 1..4 : line[i] = SP

Unexpected(line) ==
    ~(IsBlank(line) \/ IsComment(line) \/ IsAssignment(line)
        \/ IsHeader(line) \/ IsIndented(line))

\* the physical lines of the content being parsed
Physical == SplitAt(parsing.content, NL)

\* C14: parse_justfile_str fails exactly when some line is non-blank, no
\* comment, no variable assignment, no recipe header and not indented by a
\* tab or four spaces; the error carries the 1-based number of the first
\* such line and 'Unexpected content: ' with its trimmed text, and no
\* Justfile is returned.
C14_FailsOnFirstUnexpectedLine ==
    parsing.returned # None =>
        LET bad == {k \in 1..Len(Physical) : Unexpected(Physical[k])}
            r == parsing.returned[1]
        IN /\ r.ok <=> bad = {}
           /\ bad # {} =>
                 LET first == CHOOSE k \in bad : \A j \in bad : k <= j
                 IN /\ r.error.line = first
                    /\ r.error.message =
                          <<"U", "n", "e", "x", "p", "e", "c", "t", "e", "d",
                            " ", "c", "o", "n", "t", "e", "n", "t", ":", " ">>
                            \o trim(Physical[first])
                    /\ r.value = <<>>
                    /\ justfile = Justfile(<<>>, EmptyMap)

\* C14's case: the second and the third line are both unexpected, the
\* second with whitespace around its text, and the parse has failed
C14_Witness ==
    /\ parsing.returned # None
    /\ ~parsing.returned[1].ok
    /\ Len(Physical) = 3
    /\ {k \in 1..3 : Unexpected(Physical[k])} = {2, 3}
    /\ trim(Physical[2]) # Physical[2]

\* the kind of a physical line: the first that matches, in the order blank,
\* comment, variable assignment, recipe header; "other" is the rest
Kind(line) ==
    IF IsBlank(line) THEN "blank"
    ELSE IF IsComment(line) THEN "comment"
    ELSE IF IsAssignment(line) THEN "assignment"
    ELSE IF IsHeader(line) THEN "header"
    ELSE "other"

\* the text of a comment line: what follows the #, trimmed
CommentText(line) == trim(Tail(trim(line)))

\* C15 as stated, the pending documentation after the first n lines: set by
\* a non-empty comment, cleared by a recipe header, kept by any other line
RECURSIVE ClaimedPending(_)
ClaimedPending(n) ==
    IF n = 0 THEN None
    ELSE LET line == Physical[n]
         IN IF Kind(line) = "comment" /\ CommentText(line) # <<>>
            THEN Some(CommentText(line))
            ELSE IF Kind(line) = "header" THEN None
            ELSE ClaimedPending(n - 1)

\* the recipes parsed so far, the one being collected last
Collected ==
    parsing.recipes
      \o (IF parsing.current_recipe # None THEN <<parsing.current_recipe[1]>>
          ELSE <<>>)

\* the header lines among the first n lines, in order
RECURSIVE Headers(_)
Headers(n) ==
    IF n = 0 THEN <<>>
    ELSE IF Kind(Physical[n]) = "header" THEN Append(Headers(n - 1), n)
    ELSE Headers(n - 1)

\* the parse has not failed
Parsing == parsing.pc # "idle" /\ (parsing.returned # None => parsing.returned[1].ok)

\* C15 as stated: the pending documentation is the last non-empty comment
\* since the last recipe header, whatever other lines follow it, and each
\* recipe gets what is pending before its header.
C15_PendingUntilHeader ==
    Parsing =>
        /\ parsing.current_doc = ClaimedPending(parsing.line_number)
        /\ \A k \in 1..Len(Collected) :
              k <= Len(Headers(parsing.line_number))
                 => Collected[k].documentation
                      = ClaimedPending(Headers(parsing.line_number)[k] - 1)

\* the pending documentation after the first n lines: set by a non-empty
\* comment, kept by blank lines, empty comments and variable assignments,
\* cleared by any other line
RECURSIVE Pending(_)
Pending(n) ==
    IF n = 0 THEN None
    ELSE LET line == Physical[n]
         IN IF Kind(line) = "comment" /\ CommentText(line) # <<>>
            THEN Some(CommentText(line))
            ELSE IF Kind(line) \in {"blank", "comment", "assignment"}
            THEN Pending(n - 1)
            ELSE None

\* C15, amended: a non-empty comment sets the pending documentation; blank
\* lines, empty comments and variable assignments keep it; a recipe header
\* takes it as the recipe's documentation and clears it; every other line
\* (an indented line that is none of these) clears it too.
C15_PendingUntilHeaderOrBody ==
    Parsing =>
        /\ parsing.current_doc = Pending(parsing.line_number)
        /\ Len(Collected) = Len(Headers(parsing.line_number))
        /\ \A k \in 1..Len(Collected) :
              Collected[k].documentation
                 = Pending(Headers(parsing.line_number)[k] - 1)

\* C15's case: a comment, then an indented line, then a recipe header that
\* gets no documentation
C15_Witness ==
    /\ Parsing
    /\ parsing.line_number = 3
    /\ Kind(Physical[1]) = "comment" /\ CommentText(Physical[1]) # <<>>
    /\ Kind(Physical[2]) = "other"
    /\ Kind(Physical[3]) = "header"
    /\ Collected[1].documentation = None

\* the lines among from..to that are indented and none of blank, comment,
\* variable assignment or recipe header
RECURSIVE BodyLines(_, _)
BodyLines(from, to) ==
    IF to < from THEN <<>>
    ELSE IF Kind(Physical[to]) = "other" /\ IsIndented(Physical[to])
    THEN Append(BodyLines(from, to - 1), Physical[to])
    ELSE BodyLines(from, to - 1)

\* the last assignment to the key among the first n lines: <<value>>, or
\* <<>> when there is none
RECURSIVE Assigned(_, _)
Assigned(key, n) ==
    IF n = 0 THEN <<>>
    ELSE LET line == Physical[n]
             eq == CHOOSE i \in 1..Len(line) :
                       line[i] = "=" /\ \A j \in 1..(i - 1) : line[j] # "="
         IN IF Kind(line) = "assignment"
               /\ trim(SubSeq(line, 1, eq - 1)) = key
            THEN <<trim(SubSeq(line, eq + 1, Len(line)))>>
            ELSE Assigned(key, n - 1)

\* C16: each line is of the first kind that matches, in the order blank,
\* comment, variable assignment, recipe header, body line, error. The body
\* of a recipe is the indented lines between its header and the next that
\* are none of comment, assignment or header, in full, in source order,
\* joined by newlines; an indented line before any header is ignored and is
\* never an error.
C16_LinesClassifiedInOrder ==
    /\ Parsing =>
          LET n == parsing.line_number
              h == Headers(n)
          IN /\ Len(Collected) = Len(h)
             /\ \A k \in 1..Len(h) :
                   Collected[k].body =
                       JoinNonEmpty(BodyLines(h[k] + 1,
                                              IF k < Len(h) THEN h[k + 1] - 1
                                              ELSE n))
             /\ \A key \in DOMAIN parsing.variables :
                   Assigned(key, n) = <<parsing.variables[key]>>
             /\ \A k \in 1..n :
                   Kind(Physical[k]) = "assignment" =>
                       \E key \in DOMAIN parsing.variables :
                           Assigned(key, k) # <<>>
    /\ (parsing.returned # None /\ ~parsing.returned[1].ok) =>
          LET line == Physical[parsing.returned[1].error.line]
          IN Kind(line) = "other" /\ ~IsIndented(line)

\* C16's case: a header, an indented assignment, then a body line, which
\* alone is the body
C16_Witness ==
    /\ Parsing
    /\ parsing.line_number = 3
    /\ Kind(Physical[1]) = "header"
    /\ Kind(Physical[2]) = "assignment" /\ IsIndented(Physical[2])
    /\ Kind(Physical[3]) = "other" /\ IsIndented(Physical[3])
    /\ Collected[1].body = Physical[3]

\* the recipe name of a header line: its text up to the first whitespace or
\* colon, leading whitespace apart
HeaderName(line) ==
    LET t == trim(line)
        n == CHOOSE i \in 1..Len(t) :
                 /\ IsWhitespace(t[i]) \/ t[i] = ":"
                 /\ \A j \in 1..(i - 1) : ~(IsWhitespace(t[j]) \/ t[j] = ":")
    IN SubSeq(t, 1, n - 1)

\* the index of the earliest recipe of the Justfile that bears the name
Earliest(name) ==
    CHOOSE i \in 1..Len(justfile.recipes) :
        /\ justfile.recipes[i].name = name
        /\ \A k \in 1..(i - 1) : justfile.recipes[k].name # name

Parsed == parsing.returned # None /\ parsing.returned[1].ok

\* C17: a successful parse returns one recipe per header line, in header
\* order, the last one and those that repeat a name included; and
\* execute_recipe runs, for a name, the earliest recipe that bears it, never
\* the body of a later one.
C17_OneRecipePerHeaderEarliestRuns ==
    Parsed =>
        LET h == Headers(Len(Physical))
        IN /\ justfile = parsing.returned[1].value
           /\ Len(justfile.recipes) = Len(h)
           /\ \A k \in 1..Len(h) :
                 /\ justfile.recipes[k].name = HeaderName(Physical[h[k]])
                 /\ justfile.recipes[k].body =
                       JoinNonEmpty(BodyLines(h[k] + 1,
                           IF k < Len(h) THEN h[k + 1] - 1 ELSE Len(Physical)))
           /\ \A i \in 1..Len(stack) :
                 stack[i].recipe # NoRecipe =>
                     stack[i].recipe = justfile.recipes[Earliest(stack[i].recipe_name)]
           /\ \A k \in 1..Len(dispatched) :
                 LET r == justfile.recipes[Earliest(dispatched[k].recipe_name)]
                 IN \/ dispatched[k].line = r.body
                    \/ /\ r.parameters # <<>>
                       /\ r.body = <<TAB>> \o Pattern(<<"p">>) \o <<"x">>
                       /\ \E v \in {<<"v">>, <<"d">>} :
                             dispatched[k].line = <<TAB>> \o v \o <<"x">>

\* C17's case: three recipes were parsed, the first and the last of the
\* same name and different bodies, and a recipe that depends on that name
\* was run to its end
C17_Witness ==
    /\ Parsed
    /\ Len(justfile.recipes) = 3
    /\ justfile.recipes[1].name = justfile.recipes[3].name
    /\ justfile.recipes[1].body # justfile.recipes[3].body
    /\ result # None
    /\ result[1].recipe_name = justfile.recipes[2].name
    /\ result[1].returned.ok
    /\ Len(dispatched) = 2

\* the parameters of the parsed recipes, as <<recipe index, parameter index>>:
\* the i-th parameter of a recipe comes from the (i+1)-th token of its
\* header, up to the colon
DeclaredParameters ==
    {ki \in (1..Len(justfile.recipes)) \X (1..MaxParams) :
        ki[2] <= Len(justfile.recipes[ki[1]].parameters)}

TokenOf(ki) ==
    LET line == trim(Physical[Headers(Len(Physical))[ki[1]]])
    IN split_whitespace(SubSeq(line, 1, find(line, ":")[1] - 1))[ki[2] + 1]

NameOf(ki) == justfile.recipes[ki[1]].parameters[ki[2]].name

\* C18 as stated: no parsed parameter name begins with *, its token having
\* a default or not, and a call of a recipe declared with a * parameter
\* binds and substitutes it as the parameter of the name without the *.
C18_VariadicMarkerStripped ==
    Parsed =>
        /\ \A ki \in DeclaredParameters :
              NameOf(ki) = <<>> \/ NameOf(ki)[1] # "*"
        /\ \A k \in 1..Len(dispatched) :
              justfile.recipes[Earliest(dispatched[k].recipe_name)].parameters
                  # <<>>
              => \E v \in {<<"v">>, <<"d">>} :
                    dispatched[k].line = <<TAB>> \o v \o <<"x">>
        /\ \A i \in 1..Len(result) :
              ~FailedWith([returned |-> TRUE, ret |-> result[i].returned],
                          "SubstitutionFailed")

\* C18, what the code does instead: the * is removed from the name of a
\* parameter whose token has no default, and kept in the name of one whose
\* token has a default.
C18_MarkerStrippedWithoutDefault ==
    Parsed =>
        \A ki \in DeclaredParameters :
            LET token == TokenOf(ki)
            IN IF \E i \in 1..Len(token) : token[i] = "="
               THEN NameOf(ki) = SubSeq(token, 1, find(token, "=")[1] - 1)
               ELSE NameOf(ki) = IF token[1] = "*" THEN Tail(token) ELSE token

\* C18's case: a recipe was parsed from a header with the token *p=d, and
\* a call of it with an argument has returned
C18_Witness ==
    /\ Parsed
    /\ result # None
    /\ result[1].args # <<>>
    /\ Declared(result[1].recipe_name)
    /\ LET k == Earliest(result[1].recipe_name)
       IN /\ <<k, 1>> \in DeclaredParameters
          /\ TokenOf(<<k, 1>>) = <<"*", "p", "=", "d">>

\* the number of dependency paths from one name to another: a path takes,
\* at each recipe, one entry of its dependency list, and two entries of one
\* list are two paths even when they name the same recipe
RECURSIVE PathCount(_, _), PathCountOfAll(_, _)
PathCount(from, to) ==
    (IF from = to THEN 1 ELSE 0)
      + PathCountOfAll(Resolve(from).dependencies, to)
PathCountOfAll(names, to) ==
    IF names = <<>> THEN 0
    ELSE PathCount(Head(names), to) + PathCountOfAll(Tail(names), to)

\* how many times the body of the recipe of that name was run
Runs(name) == Cardinality({k \in 1..Len(runLog) : runLog[k].recipe_name = name})

\* C19: nothing is remembered within a call: when the call returns a
\* result, the body of each recipe has been run once per dependency path
\* from the requested recipe to it, and the returned stdout holds the output
\* of every run.
C19_RunsOncePerPath ==
    (result # None /\ result[1].returned.ok) =>
        /\ \A i \in 1..Len(justfile.recipes) :
              Runs(justfile.recipes[i].name)
                 = PathCount(result[1].recipe_name, justfile.recipes[i].name)
        /\ result[1].returned.value.stdout
              = JoinNonEmpty([k \in 1..Len(runLog) |-> runLog[k].result.stdout])

\* C19's case: c is a dependency of a and of b, b one of a, and in the
\* stdout that the call of a returned c's output stands twice
C19_Witness ==
    /\ result # None
    /\ result[1].returned.ok
    /\ result[1].recipe_name = "a"
    /\ Resolve("a").dependencies = <<"b", "c">>
    /\ Resolve("b").dependencies = <<"c">>
    /\ Runs("c") = 2
    /\ result[1].returned.value.stdout
          = <<"3", NL, "2", NL, "3", NL, "1">>

\* the declared names that the dependency lists of the names of S name
Successors(S) ==
    {d \in {justfile.recipes[i].name : i \in 1..Len(justfile.recipes)} :
        \E n \in S :
            /\ Declared(n)
            /\ \E k \in 1..Len(Resolve(n).dependencies) :
                  Resolve(n).dependencies[k] = d}

\* the names reached from those of S by at least one and at most k
\* dependency edges
RECURSIVE Reached(_, _)
Reached(S, k) ==
    IF k = 0 THEN {}
    ELSE Successors(S) \cup Reached(Successors(S), k - 1)

\* a dependency cycle is reachable from the name
CycleReachable(name) ==
    /\ Declared(name)
    /\ \E n \in {name} \cup Reached({name}, Len(justfile.recipes)) :
          n \in Reached({n}, Len(justfile.recipes))

\* the arguments of the outermost call bind to the parameters of its recipe
Binds(c) ==
    /\ Declared(c.recipe_name)
    /\ Len(c.args) <= Len(Resolve(c.recipe_name).parameters)
    /\ Unbound(c) = {}

\* the call returns, sooner or later, when no cycle is reachable from the
\* requested recipe
AcyclicCallsReturn ==
    (stack # <<>> /\ ~CycleReachable(stack[1].recipe_name))
        ~> (result # None)

\* C20 as stated: a call (with arguments that bind) of a recipe from which a
\* dependency cycle is reachable never returns a result or an error; a call
\* of a recipe from which none is reachable always returns.
C20_ReachableCycleNeverReturns ==
    /\ [](\A i \in 1..Len(result) :
             ~(Binds(result[i]) /\ CycleReachable(result[i].recipe_name)))
    /\ AcyclicCallsReturn

\* following, from the name, the first dependency of each recipe k times
\* never leaves the declared recipes, which all take no argument-less call
\* amiss: each parameter has a default
RECURSIVE FirstDependencies(_, _)
FirstDependencies(name, k) ==
    /\ Declared(name)
    /\ \A i \in 1..Len(Resolve(name).parameters) :
          Resolve(name).parameters[i].default_value # None
    /\ k > 0 =>
          /\ Resolve(name).dependencies # <<>>
          /\ FirstDependencies(Resolve(name).dependencies[1], k - 1)

\* the first dependencies from the requested recipe on lead into a cycle:
\* there are more steps than recipes
FirstDependenciesCycle(c) ==
    /\ Binds(c)
    /\ Resolve(c.recipe_name).dependencies # <<>>
    /\ FirstDependencies(Resolve(c.recipe_name).dependencies[1],
                         Len(justfile.recipes))

\* C20, amended: a call (with arguments that bind) never returns when the
\* first dependency of the requested recipe, the first dependency of that
\* one, and so on, lead into a cycle; a cycle that is reachable only behind
\* another dependency does not keep the call from returning; a call of a
\* recipe from which no cycle is reachable always returns.
C20_FirstDependencyCycleNeverReturns ==
    /\ [](\A i \in 1..Len(result) : ~FirstDependenciesCycle(result[i]))
    /\ AcyclicCallsReturn

\* C20's case: the recursion through a cycle of first dependencies is as
\* deep as the model follows it, the requested recipe on the chain twice
C20_Witness ==
    /\ Len(stack) = MaxDepth
    /\ FirstDependenciesCycle(stack[1])
    /\ \E i \in 2..MaxDepth : stack[i].recipe_name = stack[1].recipe_name
    /\ result = None

\* the value of the member of the JSON object under the key
Member(object, key) ==
    object[CHOOSE i \in 1..Len(object) : object[i].key = key].value

\* the string that a JSON string text stands for: the quotes taken off and
\* each escape turned back into its character
RECURSIVE Unescaped(_)
Unescaped(s) ==
    IF s = <<>> THEN <<>>
    ELSE IF Head(s) = "\\" /\ Len(s) > 1
         THEN <<(CASE s[2] = "n" -> NL [] s[2] = "t" -> TAB [] OTHER -> s[2])>>
              \o Unescaped(SubSeq(s, 3, Len(s)))
         ELSE <<Head(s)>> \o Unescaped(Tail(s))

StringOf(json) == Unescaped(SubSeq(json, 2, Len(json) - 1))

\* the args string of the tool call is no JSON array of strings: after
\* leading whitespace it does not begin with [, or it does not end with ]
\* followed by whitespace only, or what stands between is not quoted
\* strings separated by commas
RECURSIVE QuotedStrings(_)
QuotedStrings(s) ==
    LET t == trim(s)
    IN /\ Len(t) >= 2
       /\ t[1] = "\""
       /\ \E k \in 2..Len(t) :
             /\ t[k] = "\""
             /\ \A j \in 2..(k - 1) : t[j] # "\""
             /\ LET rest == trim(SubSeq(t, k + 1, Len(t)))
                IN \/ rest = <<>>
                   \/ rest[1] = "," /\ QuotedStrings(Tail(rest))

Unparsable(args) ==
    /\ args # None
    /\ LET t == trim(args[1])
       IN ~(/\ Len(t) >= 2
            /\ t[1] = "["
            /\ t[Len(t)] = "]"
            /\ LET inner == trim(SubSeq(t, 2, Len(t) - 1))
               IN inner = <<>> \/ QuotedStrings(inner))

\* C21: the run_recipe tool replies with a successful tool result exactly
\* when execute_recipe returned a result whose exit_code is 0; a result
\* with another exit_code gives a tool result flagged as error whose payload
\* carries the captured stdout, stderr and exit_code and success = false;
\* an ExecutionError, and an args string that does not parse, give a
\* protocol error that carries no output, and an args string that does not
\* parse lets nothing run.
C21_ToolReportsExitCode ==
    server.pc = "replied" =>
        LET reply == server.reply[1]
            ran == result # None
            returned == result[1].returned
            payload == reply.value.content[1].text
        IN /\ (reply.ok /\ reply.value.is_error = Some(FALSE))
                 <=> (ran /\ returned.ok /\ returned.value.exit_code = 0)
           /\ (ran /\ returned.ok /\ returned.value.exit_code # 0) =>
                 /\ reply.ok
                 /\ reply.value.is_error = Some(TRUE)
                 /\ Len(reply.value.content) = 1
                 /\ StringOf(Member(payload, "stdout")) = returned.value.stdout
                 /\ StringOf(Member(payload, "stderr")) = returned.value.stderr
                 /\ Member(payload, "exit_code") = returned.value.exit_code
                 /\ Member(payload, "success") = FALSE
           /\ (ran /\ ~returned.ok) =>
                 /\ ~reply.ok
                 /\ reply.error = [code |-> -1,
                                   message |-> [text |-> "Execution error: {}",
                                                source |-> Some(returned.error)],
                                   data |-> None]
           /\ Unparsable(server.args) =>
                 /\ ~reply.ok
                 /\ reply.error.data = None
                 /\ reply.error.message.source = None
                 /\ ~ran
                 /\ dispatched = <<>>

\* C21's case: the tool, called with an args string that parsed, replied
\* with a tool result flagged as error after a run that captured both
\* stdout, of more than one line, and stderr and exited non-zero
C21_Witness ==
    /\ server.pc = "replied"
    /\ server.args # None
    /\ server.reply[1].ok
    /\ server.reply[1].value.is_error = Some(TRUE)
    /\ result[1].returned.value.exit_code # 0
    /\ result[1].returned.value.stderr # <<>>
    /\ \E i \in 1..Len(result[1].returned.value.stdout) :
          result[1].returned.value.stdout[i] = NL

\* the indexes of the parameters left without an argument and without a
\* default, in increasing order
RECURSIVE Ascending(_)
Ascending(S) ==
    IF S = {} THEN <<>>
    ELSE LET least == CHOOSE i \in S : \A j \in S : i <= j
         IN <<least>> \o Ascending(S \ {least})

MissingIndexes(params, args) ==
    Ascending({i \in 1..Len(params) :
                  i > Len(args) /\ params[i].default_value = None})

\* C22: validator::validate_arguments returns one error for each
\* parameter, at an index from len(args) on, that has no default, bearing
\* the parameter's name, in the order of the parameters, and besides them
\* one error tagged <extra> exactly when there are more arguments than
\* parameters; is_valid is true exactly when there is no error.
C22_OneErrorPerMissingParameter ==
    cli.pc = "validated" =>
        LET v == cli.validation[1]
            params == cli.recipe.parameters
            missing == MissingIndexes(params, cli.args)
            tagged == {k \in 1..Len(v.errors) :
                          v.errors[k].parameter = ExtraParameter}
            named == Ascending((1..Len(v.errors)) \ tagged)
        IN /\ Len(named) = Len(missing)
           /\ \A k \in 1..Len(named) :
                 v.errors[named[k]].parameter = params[missing[k]].name
           /\ Cardinality(tagged)
                 = (IF Len(cli.args) > Len(params) THEN 1 ELSE 0)
           /\ v.is_valid <=> (v.errors = <<>>)

\* C22's case: two parameters without defaults, of different names, and
\* no argument: two errors, the first about the first parameter
C22_Witness ==
    /\ cli.pc = "validated"
    /\ cli.args = <<>>
    /\ Len(cli.recipe.parameters) = 2
    /\ cli.recipe.parameters[1].name # cli.recipe.parameters[2].name
    /\ Len(cli.validation[1].errors) = 2
    /\ cli.validation[1].errors[1].parameter = cli.recipe.parameters[1].name
    /\ ~cli.validation[1].is_valid

\* two maps hold the same keys with the same values
SameMap(a, b) ==
    /\ DOMAIN a = DOMAIN b
    /\ \A k \in DOMAIN a : a[k] = b[k]

\* C23: when restore_from_snapshot succeeds, the variables are exactly
\* the map they were at the most recent create_snapshot, whatever was set
\* since (changed values are back, added keys are gone), and the snapshot
\* is still that map, so that a later restore gives the same map again.
C23_RestoreGivesSnapshotMap ==
    (/\ environment.last = "restore_from_snapshot"
     /\ environment.returned = Some(Ok(<<>>))) =>
        /\ SameMap(environment.variables, environment.at_create)
        /\ environment.snapshot # None
        /\ SameMap(environment.snapshot[1], environment.at_create)

\* C23's case: only set, set_custom and set_server_config have written
\* (the sources name no other method), K and L were written after
\* create_snapshot, one changing a value and one adding a key, and the
\* restore that has just succeeded is the second one since
C23_Witness ==
    /\ environment.last = "restore_from_snapshot"
    /\ environment.returned = Some(Ok(<<>>))
    /\ environment.restored = 2
    /\ environment.written = {<<"K">>, <<"L">>}
    /\ {environment.sources[i].kind : i \in 1..Len(environment.sources)}
          = {"Custom", "ServerConfig"}
    /\ DOMAIN environment.variables = {<<"K">>}
    /\ environment.variables[<<"K">>] = <<"1">>

\* C24: restore_from_snapshot succeeds exactly when create_snapshot has
\* been called with no clear_snapshot since; otherwise it returns
\* SnapshotError and leaves variables, sources and snapshot as they were.
C24_RestoreNeedsSnapshot ==
    [][environment'.last = "restore_from_snapshot" =>
          /\ environment'.returned[1].ok <=> environment.created
          /\ environment.created <=> environment.snapshot # None
          /\ ~environment.created =>
                /\ environment'.returned[1].error = SnapshotError
                /\ SameMap(environment'.variables, environment.variables)
                /\ environment'.sources = environment.sources
                /\ environment'.snapshot = None
                /\ environment.snapshot = None]_vars

\* C24's case: restore_from_snapshot has just failed on an environment
\* that holds variables and sources and whose snapshot, taken of a
\* non-empty map, has been cleared
C24_Witness ==
    /\ environment.last = "restore_from_snapshot"
    /\ ~environment.returned[1].ok
    /\ ~environment.created
    /\ DOMAIN environment.at_create # {}
    /\ DOMAIN environment.variables # {}
    /\ environment.sources # <<>>

\* the last of the codes that is not zero, or 0 when all are zero
LastNonZero(codes) ==
    LET nonzero == {k \in 1..Len(codes) : codes[k] # 0}
    IN IF nonzero = {} THEN 0
       ELSE codes[CHOOSE k \in nonzero : \A j \in nonzero : j <= k]

\* the activation has had a result from each of its dependencies
DependenciesDone(f) ==
    /\ f.recipe.dependencies # <<>>
    /\ Len(f.dep_exit_codes) = Len(f.recipe.dependencies)

\* C25: once every dependency of a recipe has returned a result, the
\* exit code accumulated for the dependencies is that of the last
\* dependency, in declaration order, whose result had a non-zero exit
\* code, and 0 only when every dependency's had 0: a zero after a non-zero
\* code does not reset it.
C25_LastNonZeroDependencyCode ==
    \A i \in 1..Len(stack) :
        DependenciesDone(stack[i]) =>
            /\ stack[i].dependency_output.exit_code
                  = LastNonZero(stack[i].dep_exit_codes)
            /\ stack[i].dependency_output.exit_code = 0
                  <=> \A k \in 1..Len(stack[i].dep_exit_codes) :
                         stack[i].dep_exit_codes[k] = 0

\* C25's case: two dependencies have returned, the first with a non-zero
\* exit code and the second with 0
C25_Witness ==
    /\ stack # <<>>
    /\ DependenciesDone(Top)
    /\ Len(Top.dep_exit_codes) = 2
    /\ Top.dep_exit_codes[1] # 0
    /\ Top.dep_exit_codes[2] = 0
    /\ Top.dependency_output.exit_code = Top.dep_exit_codes[1]

\* C26, as stated: expand_variables terminates on every text under every
\* variable map: once called it returns, the expanded text or the error of
\* the exhausted passes.
C26_ExpansionTerminates ==
    (environment.expanding.pc = "while")
        ~> (environment.expanding.pc = "done")

\* what the code does otherwise: a call that returns returns the error
\* exactly when it has begun MAX_ITERATIONS passes, and never begins more
C26_ReturnedWithinPasses ==
    /\ environment.expanding.iterations <= MAX_ITERATIONS
    /\ environment.expanding.pc = "done" =>
          (~environment.returned[1].ok
              <=> environment.expanding.iterations = MAX_ITERATIONS)

\* C26's case: the variable A holds ${A}; in its first pass the ${VAR}
\* loop has replaced ${A} by the value of A and stands before the same
\* result again
C26_Witness ==
    /\ environment.expanding.pc = "braces"
    /\ environment.expanding.iterations = 1
    /\ environment.expanding.replacements = 1
    /\ environment.expanding.changed
    /\ environment.variables[<<"A">>] = <<"$", "{", "A", "}">>
    /\ StartsWith(environment.expanding.text, <<"$", "{", "A", "}">>)
    /\ environment.expanding.result = environment.expanding.text


\* what substitute_parameters returned to the activation f
SubstitutionOutcome(f) ==
    IF f.pc = "ret" /\ ~f.ret.ok /\ f.ret.error.kind = "SubstitutionFailed"
    THEN f.ret
    ELSE Ok(f.text[1])

\* every outcome the two loops can have for the activation f
SubstitutionOutcomes(f) ==
    {substitute_parameters(f.recipe.body, f.param_values, justfile.variables,
                           porder, vorder) :
        porder \in Orders(f.param_values),
        vorder \in Orders(justfile.variables)}

\* a value of the map is the placeholder of another key of the map
RefersToAnother(map) ==
    \E j, k \in DOMAIN map : j # k /\ Contains(map[j], Pattern(k))

\* C27: body substitution is deterministic: for a fixed body, parameter
\* binding and variable map the outcome (the text, or SubstitutionFailed)
\* is the same for every order in which the parameters and then the
\* variables are replaced, also when a value is itself a placeholder naming
\* another parameter or variable.
C27_SubstitutionOrderIrrelevant ==
    \A i \in DOMAIN stack :
        stack[i].text # None =>
            SubstitutionOutcomes(stack[i]) = {SubstitutionOutcome(stack[i])}

\* what the code has: the outcome is the same for every order when no
\* parameter value is the placeholder of another parameter and no variable
\* value the placeholder of another variable
C27_DeterministicWithoutCrossReference ==
    \A i \in DOMAIN stack :
        (/\ stack[i].text # None
         /\ ~RefersToAnother(stack[i].param_values)
         /\ ~RefersToAnother(justfile.variables)) =>
            SubstitutionOutcomes(stack[i]) = {SubstitutionOutcome(stack[i])}

\* C27's case: the body names variable v, whose value is the placeholder of
\* variable w, and this run replaced v before w, so the text is resolved
C27_Witness ==
    /\ stack # <<>>
    /\ Top.recipe_name = "a"
    /\ Top.text # None
    /\ Top.pc = "cmds"
    /\ Contains(Top.recipe.body, Pattern(<<"v">>))
    /\ <<"w">> \in DOMAIN justfile.variables
    /\ justfile.variables[<<"v">>] = Pattern(<<"w">>)
    /\ justfile.variables[<<"w">>] = <<"X">>
    /\ Contains(Top.text[1], <<"e", "X">>)

\* the run subcommand's call of execute_recipe has failed with
\* InvalidArguments for the requested recipe itself
InvalidArgumentsForRequested ==
    \/ /\ result # None
       /\ ~result[1].returned.ok
       /\ result[1].returned.error.kind = "InvalidArguments"
    \/ /\ stack # <<>>
       /\ stack[1].pc = "ret"
       /\ ~stack[1].ret.ok
       /\ stack[1].ret.error.kind = "InvalidArguments"

\* C28: the standalone validator and the executor agree on the validity of
\* the arguments: validator::validate_arguments reports is_valid exactly
\* when the executor's binding of the same arguments succeeds, so a run of
\* the command line that passed validation never fails with
\* InvalidArguments for the requested recipe; validate_with_help changes
\* neither is_valid nor the number of errors.
C28_ValidatorAgreesWithExecutor ==
    cli.validation # None =>
        LET shown == cli.validation[1]
            plain == validator_validate_arguments(cli.recipe, cli.args)
            bound == validate_arguments(cli.recipe, cli.args)
        IN /\ cli.recipe = find_recipe(justfile, cli.recipe_name).value
           /\ plain.is_valid <=> bound.ok
           /\ plain.is_valid <=> plain.errors = <<>>
           /\ shown.is_valid = plain.is_valid
           /\ Len(shown.errors) = Len(plain.errors)
           /\ shown.is_valid <=> (cli.pc = "executing" \/ result # None)
           /\ shown.is_valid => ~InvalidArgumentsForRequested
           /\ (shown.is_valid /\ stack # <<>>) =>
                 /\ stack[1].recipe = cli.recipe
                 /\ stack[1].args = cli.args
                 /\ SameMap(stack[1].param_values, bound.value)
           /\ ~shown.is_valid =>
                 /\ cli.pc = "exited" /\ cli.exit = Some(1)
                 /\ activations = 0 /\ dispatched = <<>>
                 /\ Len(cli.stderr) = Len(plain.errors)

\* C28's case: a run with one argument for a recipe of two parameters
\* passed validation, execute_recipe returned without an error and the
\* process exited
C28_Witness ==
    /\ cli.pc = "exited"
    /\ cli.validation # None
    /\ cli.validation[1].is_valid
    /\ Len(cli.recipe.parameters) = 2
    /\ Len(cli.args) = 1
    /\ result # None
    /\ result[1].returned.ok
    /\ cli.exit = Some(result[1].returned.value.exit_code)

\* a dependency of the activation has returned a result with a non-zero
\* exit code
DependencyExitedNonZero(f) ==
    \E k \in 1..Len(f.dep_exit_codes) : f.dep_exit_codes[k] # 0

\* the command lines the activation has dispatched are the first command
\* lines of its body, and one is left out only after one that failed
DispatchedOwnCommands(f) ==
    LET mine == DispatchedBy(f.id)
        commands == SelectSeq(f.body_lines, IsCommand)
    IN /\ Len(mine) <= Len(commands)
       /\ \A k \in 1..Len(mine) : mine[k].line = commands[k]
       /\ Len(mine) < Len(commands) =>
             /\ mine # <<>>
             /\ ~Succeeded(mine[Len(mine)])

\* C29: a dependency that completes with a non-zero exit code, without an
\* error, does not stop execution: the remaining dependencies are called in
\* declaration order and then the dependent's own command lines are
\* dispatched; fail-fast does not pass from a dependency to its dependent.
C29_DependencyExitDoesNotStop ==
    \A i \in 1..Len(stack) :
        LET f == stack[i]
            done == Len(f.dep_exit_codes)
        IN DependencyExitedNonZero(f) =>
              /\ f.pc = "deps" => f.dep_i = done + 1
              /\ f.pc # "deps" =>
                    \/ /\ done = Len(f.recipe.dependencies)
                       /\ f.text # None
                    \/ /\ done < Len(f.recipe.dependencies)
                       /\ f.pc = "ret"
                       /\ ~f.ret.ok
                       /\ f.ret.error.kind = "DependencyFailed"
                       /\ f.ret.error.dependency
                             = f.recipe.dependencies[done + 1]
              /\ (f.pc = "ret" /\ f.ret.ok) =>
                    /\ f.own # None
                    /\ f.body_lines = lines(f.text[1])
                    /\ DispatchedOwnCommands(f)

\* C29's case: the first of two dependencies exited non-zero, the second
\* was run after it, and the dependent has dispatched a command of its own
\* and returns
C29_Witness ==
    /\ ReturningOk
    /\ Len(Top.dep_exit_codes) = 2
    /\ Top.dep_exit_codes[1] # 0
    /\ DispatchedBy(Top.id) # <<>>
    /\ \E k \in 1..Len(runLog) :
          /\ k > Top.began
          /\ runLog[k].recipe_name = Top.recipe.dependencies[2]

\* the call of execute_recipe for the requested recipe fails, or has
\* failed, with an error of this kind of its own
RequestedFailedWith(kind) ==
    \/ /\ result # None
       /\ ~result[1].returned.ok
       /\ result[1].returned.error.kind = kind
    \/ /\ Len(stack) = 1
       /\ stack[1].pc = "ret"
       /\ ~stack[1].ret.ok
       /\ stack[1].ret.error.kind = kind

\* the name the caller asked for
RequestedName ==
    IF result # None THEN result[1].recipe_name ELSE stack[1].recipe_name

\* C30, as stated: when execute_recipe returns RecipeNotFound,
\* InvalidArguments or SubstitutionFailed for the requested recipe itself,
\* no shell command, of the recipe or of a dependency, has been dispatched
\* during the call.
C30_RequestedErrorsBeforeSideEffects ==
    (\E kind \in {"RecipeNotFound", "InvalidArguments", "SubstitutionFailed"} :
        RequestedFailedWith(kind))
        => dispatched = <<>>

\* C30, as the code has it: RecipeNotFound and InvalidArguments for the
\* requested recipe come before any activation of a dependency and any
\* command; SubstitutionFailed comes after every dependency of the recipe
\* has run, so the commands of the dependencies have been dispatched and
\* only those of the requested recipe have not.
C30_OnlyLookupAndBindingBeforeSideEffects ==
    /\ (RequestedFailedWith("RecipeNotFound")
           \/ RequestedFailedWith("InvalidArguments")) =>
          /\ dispatched = <<>>
          /\ runLog = <<>>
          /\ activations = 1
    /\ RequestedFailedWith("SubstitutionFailed") =>
          LET requested == find_recipe(justfile, RequestedName).value
          IN /\ DispatchedBy(1) = <<>>
             /\ \A k \in 1..Len(requested.dependencies) :
                   \E r \in 1..Len(runLog) :
                       runLog[r].recipe_name = requested.dependencies[k]
             /\ activations > Len(requested.dependencies)

\* C30's case: the requested recipe a failed with SubstitutionFailed after
\* the command of its dependency b had been dispatched
C30_Witness ==
    /\ result # None
    /\ result[1].recipe_name = "a"
    /\ RequestedFailedWith("SubstitutionFailed")
    /\ dispatched # <<>>
    /\ \A k \in 1..Len(dispatched) : dispatched[k].id = 2
====
